---- MODULE Spec2Model ----
(***************************************************************************)
(* A model of riptun: the kernel-facing interface request (IfReq), the     *)
(* Queue that wraps one raw descriptor, the Tun device that owns a Vec of  *)
(* queues, and the asynchronous devices (AsyncStdTun, TokioTun) that race  *)
(* readiness over their queues.                                            *)
(*                                                                         *)
(* The kernel is modelled by a descriptor table: each successful           *)
(* libc::open creates a new open file (numbered 1, 2, ...) and binds it to *)
(* the lowest free descriptor number; libc::close releases the number.     *)
(***************************************************************************)
EXTENDS Integers, Sequences, FiniteSets, TLC

\* ------------------------------------------------------------------ bounds

\* Open files the kernel hands out in one run, and so descriptor numbers.
MaxOpens == 2
\* The largest num_queues passed to Tun::new.
MaxQueues == 2
\* Queue values the caller holds outside of a device (drained or cloned).
MaxHeld == 1
\* Datagrams the kernel keeps waiting on one queue.
MaxPending == 1
\* The longest name handed to IfReq::new, in bytes.
MaxNameLen == 24

\* ------------------------------------------------------- program constants

\* The value Queue::close stores in place of a closed descriptor.
InvalidFd == -1
\* libc::IFNAMSIZ
IF_NAME_SIZE == 16

\* --------------------------------------------------------------- variables

VARIABLES
  fdtab,      \* kernel: descriptor number -> open file (NoFile when free)
  nextId,     \* kernel: open files created so far
  tunLive,    \* whether the caller holds a Tun value
  queues,     \* Tun.queues
  name,       \* Tun.name
  held,       \* Queue values the caller owns outside of the Tun
  made,       \* history: open files for which a Queue value was returned
  drained,    \* history: open files whose Queue was drained out of the Tun
  ret,        \* history: the last operation, its result and its close calls
  impl,       \* the asynchronous device in use: "std" (AsyncStdTun) or "tokio"
  op,         \* the direction of the caller's loop: "recv" or "send"
  rxq,        \* kernel: per queue, the lengths of the datagrams waiting to be read
  txfull,     \* kernel: per queue, whether a write would block
  ready,      \* reactor: per queue, the readiness hint for the awaited direction
  pc,         \* the task inside recv/send: "idle", "racing" or "done"
  buf,        \* the length of the caller's buffer (recv) or datagram (send)
  waits,      \* the queues whose readiness wait is pending in select_all
  last,       \* history: the last iteration of the loop of recv/send
  mret,       \* the value recv/send returned
  attach,     \* kernel: open file -> the interface its queue is attached to
  oflags,     \* kernel: open file -> its file status flags
  regs,       \* reactor: the registered sources
  fed,        \* history: per queue, datagrams the kernel queued (saturating)
  got,        \* history: per queue, datagrams recv returned (saturating)
  twin,       \* the two asynchronous devices run side by side on the same inputs
  tasks       \* the tasks that call recv on one shared device at the same time

lifeVars == <<fdtab, nextId, tunLive, queues, name, held, made, drained, ret>>

muxVars == <<impl, op, rxq, txfull, ready, pc, buf, waits, last, mret>>

extVars == <<attach, oflags, regs, fed, got, twin, tasks>>

vars == <<fdtab, nextId, tunLive, queues, name, held, made, drained, ret,
          impl, op, rxq, txfull, ready, pc, buf, waits, last, mret,
          attach, oflags, regs, fed, got, twin, tasks>>

\* ------------------------------------------------------------------ kernel

NoFile == 0
FdNums == 1..MaxOpens

IsOpenFd(tab, fd) == fd \in DOMAIN tab /\ tab[fd] # NoFile

\* The open file numbered id is still bound to some descriptor number.
IsOpen(tab, id) == \E fd \in DOMAIN tab : tab[fd] = id

\* libc::open returns the lowest descriptor number not in use.
LowestFree(tab) ==
  CHOOSE f \in DOMAIN tab :
    tab[f] = NoFile /\ \A g \in DOMAIN tab : g < f => tab[g] # NoFile

\* libc::close(fd).  A number that is not open (the sentinel included) fails
\* with EBADF and changes nothing.  On an open number the descriptor is
\* released; the call may still report an error (EINTR, EIO), as Linux
\* releases the descriptor before it reports.
LibcClose(tab, fd, intr) ==
  IF IsOpenFd(tab, fd)
  THEN [tab |-> [tab EXCEPT ![fd] = NoFile],
        rc |-> IF intr THEN -1 ELSE 0,
        victim |-> tab[fd]]
  ELSE [tab |-> tab, rc |-> -1, victim |-> NoFile]

\* ------------------------------------------------------------------- IfReq

Min(a, b) == IF a < b THEN a ELSE b

IsAscii(s) == \A i \in 1..Len(s) : s[i] < 128

IFF_TUN == 1
IFF_NO_PI == 4096
IFF_MULTI_QUEUE == 256

RECURSIVE BitOr(_, _)
BitOr(a, b) ==
  IF a = 0 THEN b
  ELSE IF b = 0 THEN a
  ELSE (IF (a % 2) + (b % 2) > 0 THEN 1 ELSE 0) + 2 * BitOr(a \div 2, b \div 2)

\* Flags without the multi-queue bit.
IFF_FLAGS_SingleQueue == BitOr(IFF_TUN, IFF_NO_PI)

IFF_FLAGS == BitOr(BitOr(IFF_TUN, IFF_NO_PI), IFF_MULTI_QUEUE)

\* A request that refuses a name longer than the buffer.
IfReqNewRejectsLong(name_str) ==
  IF Len(name_str) = 0 \/ ~IsAscii(name_str) \/ Len(name_str) > IF_NAME_SIZE
  THEN [ok |-> FALSE, max_size |-> IF_NAME_SIZE, name |-> name_str]
  ELSE [ok |-> TRUE,
        name |-> [idx \in 0..(IF_NAME_SIZE - 1) |->
                    IF idx < Min(Len(name_str), IF_NAME_SIZE)
                    THEN name_str[idx + 1] ELSE 0],
        flags |-> IFF_FLAGS]

\* A request that accepts every name.
IfReqNewAcceptsAll(name_str) ==
  [ok |-> TRUE,
   name |-> [idx \in 0..(IF_NAME_SIZE - 1) |->
               IF idx < Min(Len(name_str), IF_NAME_SIZE)
               THEN name_str[idx + 1] ELSE 0],
   flags |-> IFF_FLAGS]

\* IfReq::new: the name buffer is indexed 0..IF_NAME_SIZE-1.
IfReqNew(name_str) ==
  IF Len(name_str) = 0 \/ ~IsAscii(name_str)
  THEN [ok |-> FALSE, max_size |-> IF_NAME_SIZE, name |-> name_str]
  ELSE [ok |-> TRUE,
        name |-> [idx \in 0..(IF_NAME_SIZE - 1) |->
                    IF idx < Min(Len(name_str), IF_NAME_SIZE)
                    THEN name_str[idx + 1] ELSE 0],
        flags |-> IFF_FLAGS]

RECURSIVE TakeWhileNonZero(_, _)
TakeWhileNonZero(bytes, idx) ==
  IF idx >= IF_NAME_SIZE \/ bytes[idx] = 0 THEN <<>>
  ELSE <<bytes[idx]>> \o TakeWhileNonZero(bytes, idx + 1)

\* IfReq::name
IfReqName(req) == TakeWhileNonZero(req.name, 0)

\* ------------------------------------------------ kernel: file status flags

\* The status flags F_GETFL can report for a queue.  O_LARGEFILE is set by
\* the kernel on every open of a 64-bit process; O_APPEND stands for the
\* flags other than O_NONBLOCK that F_SETFL can change.
StatusFlags == {"O_RDWR", "O_NONBLOCK", "O_LARGEFILE", "O_APPEND"}

\* The flags F_SETFL can change.
Settable == {"O_NONBLOCK", "O_APPEND"}

\* The flags an open file starts with, for each open file to come: with
\* O_LARGEFILE (large) where the kernel adds it to every open.
FlagsOnOpen(large) ==
  [id \in 1..MaxOpens |->
     IF large THEN {"O_RDWR", "O_LARGEFILE"} ELSE {"O_RDWR"}]

\* Either platform.
FreshFlags == {FlagsOnOpen(large) : large \in BOOLEAN}

\* fcntl(fd, F_GETFL)
FcntlGetFl(tab, fl, fd) ==
  IF IsOpenFd(tab, fd) THEN [rc |-> 0, flags |-> fl[tab[fd]]]
  ELSE [rc |-> -1, flags |-> {}]

\* fcntl(fd, F_SETFL(arg)) on an open descriptor: only the settable flags
\* follow arg.
FcntlSetFl(tab, fl, fd, arg) ==
  [fl EXCEPT ![tab[fd]] = (@ \ Settable) \cup (arg \cap Settable)]

\* The bits OFlag has a name for: where libc defines O_LARGEFILE as 0 the
\* bit the kernel reports for it is not among them.
OFlagBits == {"O_RDWR", "O_NONBLOCK", "O_APPEND"}

\* OFlag::from_bits: None (the empty sequence) when a bit has no name.
OFlagFromBits(bits) == IF bits \subseteq OFlagBits THEN <<bits>> ELSE <<>>

\* Option::unwrap_or
UnwrapOr(opt, default) == IF opt = <<>> THEN default ELSE opt[1]

\* ----------------------------------------------- kernel: the TUNSETIFF ioctl

\* The interfaces that exist: those some open file is still attached to.
Interfaces(tab, att) == {att[id] : id \in {tab[f] : f \in DOMAIN tab} \ {NoFile}}

\* The position of the placeholder "%d" in a name (0: none).
Placeholder(nm) ==
  IF \E p \in 1..(Len(nm) - 1) : nm[p] = 37 /\ nm[p + 1] = 100
  THEN CHOOSE p \in 1..(Len(nm) - 1) :
         /\ nm[p] = 37 /\ nm[p + 1] = 100
         /\ \A r \in 1..(p - 1) : ~(nm[r] = 37 /\ nm[r + 1] = 100)
  ELSE 0

\* The name with its placeholder replaced by the decimal digit of n.
Expand(nm, n) ==
  LET p == Placeholder(nm)
  IN  SubSeq(nm, 1, p - 1) \o <<48 + n>> \o SubSeq(nm, p + 2, Len(nm))

\* The name the kernel gives the interface: a template gets the lowest index
\* no existing interface uses; any other name is taken as it is, and names
\* an existing multi-queue interface or a new one.
Resolve(nm, existing) ==
  IF Placeholder(nm) = 0 THEN nm
  ELSE Expand(nm, CHOOSE n \in 0..9 :
                    /\ Expand(nm, n) \notin existing
                    /\ \A m \in 0..(n - 1) : Expand(nm, m) \in existing)

\* The ioctl behind create_queue on the open file id: the kernel reads the
\* name out of the request the pointer refers to (terminating it at the last
\* byte), attaches the file to the interface of the resolved name and writes
\* that name back into the request.
TunSetIff(tab, att, bytes, id) ==
  LET Attach(term, res) ==
        [att |-> [att EXCEPT ![id] = res],
         bytes |-> [idx \in 0..(IF_NAME_SIZE - 1) |->
                      IF idx < Len(res) THEN res[idx + 1]
                      ELSE IF idx = Len(res) THEN 0 ELSE term[idx]]]
      Lookup(term) ==
        Attach(term, Resolve(TakeWhileNonZero(term, 0), Interfaces(tab, att)))
  IN  Lookup([bytes EXCEPT ![IF_NAME_SIZE - 1] = 0])

\* ------------------------------------------------------------------- Queue

\* A Queue value: fd is the stored RawFd.  id (the open file it was opened
\* as), fd0 (the number it was opened at) and closed (a close() on this
\* value has succeeded) are history, not read by any operation.
NewQueue(fd, id) == [fd |-> fd, id |-> id, fd0 |-> fd, closed |-> FALSE]

\* Queue::open on the request whose name buffer holds bytes; k is the
\* kernel: its descriptor table, the open files created so far and their
\* interfaces.  outcome is what the kernel answers: "FS" the control path
\* cannot be opened; "Unix" the ioctl fails with an errno; "UnixIoctl" the
\* ioctl returns a status >= 1; "Ok".  The two ioctl failures return with
\* the descriptor still open.
QueueOpen(k, bytes, outcome) ==
  IF outcome = "FS"
  THEN [k |-> k, bytes |-> bytes, res |-> "FS", q |-> <<>>]
  ELSE LET Created(fd, id, t2, io) ==
             IF outcome = "Ok"
             THEN [k |-> [tab |-> t2, nid |-> id, att |-> io.att],
                   bytes |-> io.bytes, res |-> "Ok",
                   q |-> <<NewQueue(fd, id)>>]
             ELSE [k |-> [tab |-> t2, nid |-> id, att |-> k.att],
                   bytes |-> bytes, res |-> outcome, q |-> <<>>]
           Ioctl(fd, id, t2) ==
             Created(fd, id, t2, TunSetIff(t2, k.att, bytes, id))
           Opened(fd, id) == Ioctl(fd, id, [k.tab EXCEPT ![fd] = id])
       IN  Opened(LowestFree(k.tab), k.nid + 1)

\* A Queue value going out of scope: Queue implements no Drop, so nothing
\* is closed.
QueueDrop(tab, q) == tab

RECURSIVE VecDrop(_, _)
VecDrop(tab, qs) ==
  IF qs = <<>> THEN tab ELSE VecDrop(QueueDrop(tab, Head(qs)), Tail(qs))

\* Queue::close storing the sentinel whatever libc::close answered.
QueueCloseAlwaysInvalidates(tab, q, intr) ==
  LET k == LibcClose(tab, q.fd, intr)
      q2 == [q EXCEPT !.fd = InvalidFd, !.closed = (k.rc >= 0) \/ q.closed]
  IN  [tab |-> k.tab,
       q |-> q2,
       call |-> [id |-> q.id, fd0 |-> q.fd0, fdArg |-> q.fd,
                 wasClosed |-> q.closed,
                 rc |-> k.rc, victim |-> k.victim, fdAfter |-> q2.fd]]

\* Queue::close without line 51: the descriptor number is kept after a
\* successful close.
QueueCloseKeepsFd(tab, q, intr) ==
  LET k == LibcClose(tab, q.fd, intr)
      q2 == IF k.rc < 0 THEN q ELSE [q EXCEPT !.closed = TRUE]
  IN  [tab |-> k.tab,
       q |-> q2,
       call |-> [id |-> q.id, fd0 |-> q.fd0, fdArg |-> q.fd,
                 wasClosed |-> q.closed,
                 rc |-> k.rc, victim |-> k.victim, fdAfter |-> q2.fd]]

\* Queue::close: the sentinel is stored only when libc::close succeeded.
QueueClose(tab, q, intr) ==
  LET k == LibcClose(tab, q.fd, intr)
      q2 == IF k.rc < 0 THEN q
            ELSE [q EXCEPT !.fd = InvalidFd, !.closed = TRUE]
  IN  [tab |-> k.tab,
       q |-> q2,
       call |-> [id |-> q.id, fd0 |-> q.fd0, fdArg |-> q.fd,
                 wasClosed |-> q.closed,
                 rc |-> k.rc, victim |-> k.victim, fdAfter |-> q2.fd]]

\* #[derive(Clone)] on Queue: the copy stores the same descriptor number.
QueueClone(q) == q

\* Queue::set_non_blocking; wrote tells whether F_SETFL was issued.
QueueSetNonBlocking(tab, fl, q, on) ==
  LET g == FcntlGetFl(tab, fl, q.fd)
      flags == UnwrapOr(OFlagFromBits(g.flags), {"O_RDWR"})
  IN  IF g.rc < 0 THEN [fl |-> fl, res |-> "Unix", wrote |-> FALSE]
      ELSE IF on /\ "O_NONBLOCK" \notin flags
      THEN [fl |-> FcntlSetFl(tab, fl, q.fd, flags \cup {"O_NONBLOCK"}),
            res |-> "Ok", wrote |-> TRUE]
      ELSE IF ~on /\ "O_NONBLOCK" \in flags
      THEN [fl |-> FcntlSetFl(tab, fl, q.fd, flags \ {"O_NONBLOCK"}),
            res |-> "Ok", wrote |-> TRUE]
      ELSE [fl |-> fl, res |-> "Ok", wrote |-> FALSE]

\* -------------------------------------------------------------- new_queues

\* A loop that stops one open short.
LoopDoneEarly(i, num_queues) == i >= num_queues

\* `for _ in 0..num_queues`, i counting the opens from 1.
LoopDone(i, num_queues) == i > num_queues

\* The loop of new_queues: every open is handed the one request &req, whose
\* name buffer holds bytes by then; open number failAt (0: none) gets the
\* answer kind.  On a failure `?` returns at once and the Vec built so far
\* goes out of scope.  calls counts the calls of Queue::open.
RECURSIVE NewQueuesLoop(_, _, _, _, _, _, _)
NewQueuesLoop(k, bytes, qs, i, num_queues, failAt, kind) ==
  IF LoopDone(i, num_queues)
  THEN [k |-> k, bytes |-> bytes, res |-> "Ok", queues |-> qs,
        opened |-> qs, calls |-> i - 1]
  ELSE LET Pushed(o) ==
             IF o.res # "Ok"
             THEN [k |-> [o.k EXCEPT !.tab = VecDrop(o.k.tab, qs)],
                   bytes |-> o.bytes, res |-> o.res,
                   queues |-> <<>>, opened |-> qs, calls |-> i]
             ELSE NewQueuesLoop(o.k, o.bytes, qs \o o.q, i + 1,
                                num_queues, failAt, kind)
       IN  Pushed(QueueOpen(k, bytes, IF i = failAt THEN kind ELSE "Ok"))

\* new_queues.  The kernel writes the resolved name into the request
\* through a pointer made from the shared reference &req, while req is an
\* immutable binding: the read req.name() after the loop either sees what
\* the kernel wrote or (stale) what IfReq::new had stored.
new_queues(k, name_str, num_queues, failAt, kind, stale) ==
  LET Looped(req, r) ==
        [k |-> r.k, res |-> r.res,
         queues |-> r.queues, opened |-> r.opened,
         name |-> IfReqName(IF stale THEN req
                            ELSE [req EXCEPT !.name = r.bytes]),
         calls |-> r.calls]
      Built(req) ==
        IF ~req.ok
        THEN [k |-> k, res |-> "InvalidName",
              queues |-> <<>>, opened |-> <<>>, name |-> <<>>, calls |-> 0]
        ELSE Looped(req, NewQueuesLoop(k, req.name, <<>>, 1, num_queues,
                                       failAt, kind))
  IN  Built(IfReqNew(name_str))

\* --------------------------------------------------------------------- Tun

Ids(qs) == {qs[k].id : k \in 1..Len(qs)}

NoRet == [op |-> "none", res |-> "Ok", calls |-> <<>>, pre |-> <<>>,
          a |-> 0, b |-> 0, opened |-> {},
          arg |-> <<>>, n |-> 0, nid0 |-> 0, kcalls |-> 0,
          k |-> 0, val |-> [kind |-> "None"], io |-> <<>>,
          on |-> FALSE, again |-> FALSE, wrote |-> FALSE, fl0 |-> {}]

\* Names handed to Tun::new, as byte strings: "", "rip", and a non-ASCII one.
Names == {<<>>, <<114, 105, 112>>, <<195, 169>>}

\* The template "r%d".
Templates == {<<114, 37, 100>>}

OpenFailures == {"FS", "Unix", "UnixIoctl"}

\* Tun::new.  ret keeps the arguments, the kernel's open-file count before
\* the call and the number of calls of Queue::open.
TunNew(name_str, num_queues, failAt, kind, stale) ==
  /\ ~tunLive
  /\ nextId + num_queues <= MaxOpens
  /\ IF num_queues < 1
     THEN /\ ret' = [NoRet EXCEPT !.op = "new", !.res = "InvalidNumQueues",
                                  !.arg = name_str, !.n = num_queues,
                                  !.nid0 = nextId]
          /\ UNCHANGED <<fdtab, nextId, tunLive, queues, name, made, attach>>
     ELSE LET Made(r) ==
                /\ fdtab' = r.k.tab
                /\ nextId' = r.k.nid
                /\ attach' = r.k.att
                /\ made' = made \cup Ids(r.opened)
                /\ ret' = [NoRet EXCEPT !.op = "new", !.res = r.res,
                                        !.opened = Ids(r.opened),
                                        !.arg = name_str, !.n = num_queues,
                                        !.nid0 = nextId, !.kcalls = r.calls]
                /\ IF r.res = "Ok"
                   THEN /\ tunLive' = TRUE
                        /\ queues' = r.queues
                        /\ name' = r.name
                   ELSE UNCHANGED <<tunLive, queues, name>>
          IN  Made(new_queues([tab |-> fdtab, nid |-> nextId, att |-> attach],
                              name_str, num_queues, failAt, kind, stale))
  /\ UNCHANGED <<held, drained>>
  /\ UNCHANGED muxVars
  /\ UNCHANGED <<oflags, regs, fed, got, twin, tasks>>

\* A drain that hands out copies and removes nothing.
VecDrainCopies(qs, a, b) ==
  [rest |-> qs, out |-> SubSeq(qs, a + 1, b)]

\* Vec::drain(a..b) on the queues: the elements of the range are removed
\* and handed to the caller, the others keep their order.
VecDrain(qs, a, b) ==
  [rest |-> SubSeq(qs, 1, a) \o SubSeq(qs, b + 1, Len(qs)),
   out |-> SubSeq(qs, a + 1, b)]

\* Tun::drain(a..b), the caller keeping every drained queue.
TunDrain(a, b) ==
  /\ tunLive
  /\ a <= b /\ b <= Len(queues)
  /\ LET d == VecDrain(queues, a, b)
     IN  /\ Len(held) + Len(d.out) <= MaxHeld
         /\ queues' = d.rest
         /\ held' = held \o d.out
         /\ drained' = drained \cup Ids(d.out)
  /\ ret' = [NoRet EXCEPT !.op = "drain", !.pre = queues, !.a = a, !.b = b]
  /\ UNCHANGED <<fdtab, nextId, tunLive, name, made>>
  /\ UNCHANGED muxVars
  /\ UNCHANGED extVars

\* The loop of Tun::close over drain(..): `?` returns on the first failed
\* close; the queues not yet reached are dropped with the Drain.
RECURSIVE CloseLoop(_, _, _, _, _)
CloseLoop(tab, qs, i, intrAt, calls) ==
  IF i > Len(qs)
  THEN [tab |-> tab, calls |-> calls, res |-> "Ok"]
  ELSE LET c == QueueClose(tab, qs[i], i = intrAt)
       IN  IF c.call.rc < 0
           THEN [tab |-> VecDrop(QueueDrop(c.tab, c.q),
                                 SubSeq(qs, i + 1, Len(qs))),
                 calls |-> Append(calls, c.call), res |-> "Unix"]
           ELSE CloseLoop(QueueDrop(c.tab, c.q), qs, i + 1, intrAt,
                          Append(calls, c.call))

\* A close that takes out of the Tun only the queues it went through, and
\* keeps the later ones when a close failed.
TunCloseKeepsRest(intrAt) ==
  /\ tunLive
  /\ LET d == VecDrain(queues, 0, Len(queues))
         r == CloseLoop(fdtab, d.out, 1, intrAt, <<>>)
     IN  /\ fdtab' = r.tab
         /\ queues' = SubSeq(queues, Len(r.calls) + 1, Len(queues))
         /\ ret' = [NoRet EXCEPT !.op = "close", !.res = r.res,
                                 !.calls = r.calls, !.pre = queues]
  /\ UNCHANGED <<nextId, tunLive, name, held, made, drained>>
  /\ UNCHANGED muxVars
  /\ UNCHANGED extVars

\* Tun::close; the kernel reports an error on close number intrAt (0: none).
TunClose(intrAt) ==
  /\ tunLive
  /\ LET d == VecDrain(queues, 0, Len(queues))
         r == CloseLoop(fdtab, d.out, 1, intrAt, <<>>)
     IN  /\ fdtab' = r.tab
         /\ queues' = d.rest
         /\ ret' = [NoRet EXCEPT !.op = "close", !.res = r.res,
                                 !.calls = r.calls, !.pre = queues]
  /\ UNCHANGED <<nextId, tunLive, name, held, made, drained>>
  /\ UNCHANGED muxVars
  /\ UNCHANGED extVars

\* tun.get_mut(i) / tun[i] / iter_mut, then Queue::close on the reference.
TunQueueClose(i, intr) ==
  /\ tunLive
  /\ i \in 1..Len(queues)
  /\ LET c == QueueClose(fdtab, queues[i], intr)
     IN  /\ fdtab' = c.tab
         /\ queues' = [queues EXCEPT ![i] = c.q]
         /\ ret' = [NoRet EXCEPT !.op = "qclose",
                                 !.res = IF c.call.rc < 0 THEN "Unix" ELSE "Ok",
                                 !.calls = <<c.call>>]
  /\ UNCHANGED <<nextId, tunLive, name, held, made, drained>>
  /\ UNCHANGED muxVars
  /\ UNCHANGED extVars

\* tun.get(i).clone(), the caller keeping the copy.
TunQueueClone(i) ==
  /\ tunLive
  /\ i \in 1..Len(queues)
  /\ Len(held) < MaxHeld
  /\ held' = Append(held, QueueClone(queues[i]))
  /\ ret' = [NoRet EXCEPT !.op = "clone"]
  /\ UNCHANGED <<fdtab, nextId, tunLive, queues, name, made, drained>>
  /\ UNCHANGED muxVars
  /\ UNCHANGED extVars

\* The Tun value goes out of scope: its Vec<Queue> is dropped.
TunDrop ==
  /\ tunLive
  /\ fdtab' = VecDrop(fdtab, queues)
  /\ tunLive' = FALSE
  /\ queues' = <<>>
  /\ name' = <<>>
  /\ ret' = [NoRet EXCEPT !.op = "drop", !.pre = queues]
  /\ UNCHANGED <<nextId, held, made, drained>>
  /\ UNCHANGED muxVars
  /\ UNCHANGED extVars

\* ------------------------------------------------------------- the caller

RemoveAt(s, j) == SubSeq(s, 1, j - 1) \o SubSeq(s, j + 1, Len(s))

\* Queue::close on a queue the caller owns.
HeldClose(j, intr) ==
  /\ j \in 1..Len(held)
  /\ LET c == QueueClose(fdtab, held[j], intr)
     IN  /\ fdtab' = c.tab
         /\ held' = [held EXCEPT ![j] = c.q]
         /\ ret' = [NoRet EXCEPT !.op = "qclose",
                                 !.res = IF c.call.rc < 0 THEN "Unix" ELSE "Ok",
                                 !.calls = <<c.call>>]
  /\ UNCHANGED <<nextId, tunLive, queues, name, made, drained>>
  /\ UNCHANGED muxVars
  /\ UNCHANGED extVars

\* A queue the caller owns goes out of scope.
HeldDrop(j) ==
  /\ j \in 1..Len(held)
  /\ fdtab' = QueueDrop(fdtab, held[j])
  /\ held' = RemoveAt(held, j)
  /\ ret' = [NoRet EXCEPT !.op = "drop", !.pre = <<held[j]>>]
  /\ UNCHANGED <<nextId, tunLive, queues, name, made, drained>>
  /\ UNCHANGED muxVars
  /\ UNCHANGED extVars

\* ----------------------------------------------------------- specification

NoIter == [valid |-> FALSE, before |-> {}, winner |-> 0, waitOk |-> TRUE,
           io |-> <<>>, avail |-> 0, restarted |-> FALSE, dropped |-> {}]

NoResult == [kind |-> "None"]

\* A call of recv/send on one of the two devices run side by side: its
\* position, the queues it tried the raw operation on, and its result.
NoCall == [pc |-> "idle", tried |-> <<>>, out |-> NoResult]

NoTwin == [std |-> NoCall, tokio |-> NoCall]

\* No task is set up to share the device.
NoTasks == <<>>

MuxIdle ==
  /\ rxq = <<>>
  /\ txfull = <<>>
  /\ ready = <<>>
  /\ pc = "idle"
  /\ buf = 0
  /\ waits = {}
  /\ last = NoIter
  /\ mret = NoResult

Init ==
  /\ impl = "none"
  /\ op = "none"
  /\ MuxIdle
  /\ fdtab = [f \in FdNums |-> NoFile]
  /\ nextId = 0
  /\ attach = [id \in 1..MaxOpens |-> <<>>]
  /\ oflags = FlagsOnOpen(TRUE)
  /\ regs = {}
  /\ fed = <<>>
  /\ got = <<>>
  /\ twin = NoTwin
  /\ tasks = NoTasks
  /\ tunLive = FALSE
  /\ queues = <<>>
  /\ name = <<>>
  /\ held = <<>>
  /\ made = {}
  /\ drained = {}
  /\ ret = NoRet

Next ==
  \/ \E nm \in Names, n \in 0..MaxQueues, failAt \in 0..MaxQueues,
        kind \in OpenFailures :
       /\ failAt <= n
       /\ (failAt = 0 => kind = "FS")
       /\ TunNew(nm, n, failAt, kind, FALSE)
  \/ \E a \in 0..MaxQueues, b \in 0..MaxQueues : TunDrain(a, b)
  \/ \E intrAt \in 0..MaxQueues : intrAt <= Len(queues) /\ TunClose(intrAt)
  \/ \E i \in 1..MaxQueues, intr \in BOOLEAN : TunQueueClose(i, intr)
  \/ \E i \in 1..MaxQueues : TunQueueClone(i)
  \/ TunDrop
  \/ \E j \in 1..MaxHeld, intr \in BOOLEAN : HeldClose(j, intr)
  \/ \E j \in 1..MaxHeld : HeldDrop(j)

Spec == Init /\ [][Next]_vars

\* Tun::new with every kind of name, followed by close() or by the end of
\* the Tun.  The read of the name after the opens may be stale.
NextNew ==
  \/ \E nm \in Names \cup Templates, n \in 0..MaxQueues,
        failAt \in 0..MaxQueues, kind \in OpenFailures, stale \in BOOLEAN :
       /\ failAt <= n
       /\ (failAt = 0 => kind = "FS")
       /\ TunNew(nm, n, failAt, kind, stale)
  \/ \E intrAt \in 0..MaxQueues : intrAt <= Len(queues) /\ TunClose(intrAt)
  \/ TunDrop

SpecNew == Init /\ [][NextNew]_vars

\* ------------------------------------------------- IfReq::new and name()

\* The ASCII name of n bytes "abc...".
Ascii(n) == [i \in 1..n |-> 97 + ((i - 1) % 26)]

\* The names handed to IfReq::new, of every length up to MaxNameLen: the
\* ASCII names, those with a NUL byte at one place, and those with the
\* two bytes of a non-ASCII character at one place.
ReqNames ==
  {Ascii(n) : n \in 0..MaxNameLen}
  \cup UNION {{[Ascii(n) EXCEPT ![p] = 0] : p \in 1..n} : n \in 1..MaxNameLen}
  \cup UNION {{SubSeq(Ascii(n), 1, p - 1) \o <<195, 169>>
                 \o SubSeq(Ascii(n), p, n) : p \in 1..(n + 1)} :
              n \in 0..(MaxNameLen - 2)}

\* IfReq::new(name_str), and name() on the request when one was built.
\* ret.val is the result, ret.io what name() returned.
IfReqBuild(name_str) ==
  /\ ~tunLive
  /\ LET Built(req) ==
           ret' = [NoRet EXCEPT !.op = "build", !.arg = name_str,
                                !.res = IF req.ok THEN "Ok" ELSE "InvalidName",
                                !.val = req,
                                !.io = IF req.ok THEN IfReqName(req) ELSE <<>>]
     IN  Built(IfReqNew(name_str))
  /\ UNCHANGED <<fdtab, nextId, tunLive, queues, name, held, made, drained>>
  /\ UNCHANGED muxVars
  /\ UNCHANGED extVars

NextReq == \E name_str \in ReqNames : IfReqBuild(name_str)

SpecReq == Init /\ [][NextReq]_vars

\* ------------------------------------------------------------ Queue::open

\* A classification that takes the status 1 for success.
OpenErrorAboveOne(fd, status) ==
  IF fd < 0 THEN [kind |-> "FS", path |-> "/dev/net/tun"]
  ELSE IF status = -1 THEN [kind |-> "Unix"]
  ELSE IF status > 1 THEN [kind |-> "UnixIoctl", code |-> status]
  ELSE [kind |-> "Ok"]

\* What Queue::open makes of the kernel's answers: fd is what libc::open
\* returned, status what the ioctl returned.  `create_queue(..)?` returns
\* Error::Unix when the ioctl answered -1 (From<Errno>); a status >= 1
\* becomes Error::UnixIoctl(status) (From<i32>).
OpenError(fd, status) ==
  IF fd < 0 THEN [kind |-> "FS", path |-> "/dev/net/tun"]
  ELSE IF status = -1 THEN [kind |-> "Unix"]
  ELSE IF status >= 1 THEN [kind |-> "UnixIoctl", code |-> status]
  ELSE [kind |-> "Ok"]

\* The statuses the ioctl may answer.
IoctlStatus == {-1, 0, 1, 2}

\* Queue::open(&req) on a request built from name_str, the caller keeping
\* the Queue.  openOk: the control path can be opened; status: the answer
\* of the ioctl.  ret keeps the kernel's answers, its open-file count and
\* the number of queues the caller held before the call.
QueueOpenCall(name_str, openOk, status) ==
  /\ ~tunLive
  /\ IfReqNew(name_str).ok
  /\ nextId < MaxOpens
  /\ Len(held) < MaxHeld
  /\ \E f \in FdNums : fdtab[f] = NoFile
  /\ LET Opened(e, o) ==
           /\ fdtab' = o.k.tab
           /\ nextId' = o.k.nid
           /\ attach' = o.k.att
           /\ held' = held \o o.q
           /\ made' = made \cup Ids(o.q)
           /\ ret' = [NoRet EXCEPT !.op = "open", !.res = o.res, !.val = e,
                                   !.on = openOk, !.a = status,
                                   !.nid0 = nextId, !.n = Len(held),
                                   !.arg = name_str]
         Classified(e) ==
           Opened(e, QueueOpen([tab |-> fdtab, nid |-> nextId,
                                att |-> attach],
                               IfReqNew(name_str).name, e.kind))
     IN  Classified(OpenError(IF openOk THEN LowestFree(fdtab) ELSE -1,
                              status))
  /\ UNCHANGED <<tunLive, queues, name, drained>>
  /\ UNCHANGED muxVars
  /\ UNCHANGED <<oflags, regs, fed, got, twin, tasks>>

\* Queues opened one by one, closed and let go.
NextOpen ==
  \/ \E nm \in Names \cup Templates, openOk \in BOOLEAN,
        status \in IoctlStatus :
       QueueOpenCall(nm, openOk, status)
  \/ \E j \in 1..MaxHeld, intr \in BOOLEAN : HeldClose(j, intr)
  \/ \E j \in 1..MaxHeld : HeldDrop(j)

SpecOpen == Init /\ [][NextOpen]_vars

\* ------------------------------------ TokioQueue::open, AsyncStdQueue::open

\* TokioQueue::open(&req) / AsyncStdQueue::open(&req) (rt tells which), the
\* caller keeping the adapter: Queue::open(req)?, then non-blocking mode
\* (set_non_blocking(true)? on tokio, inside Async::new on async-std), then
\* the registration with the reactor (AsyncFd::new(queue)? / Async::new).
\* status is the answer of the ioctl; nbOk and regOk tell whether the two
\* later steps succeed.  A step that fails returns through `?` and the
\* Queue made so far is dropped.
AdapterOpenCall(rt, status, nbOk, regOk) ==
  /\ ~tunLive
  /\ nextId < MaxOpens
  /\ Len(held) < MaxHeld
  /\ \E f \in FdNums : fdtab[f] = NoFile
  /\ LET Finished(o, res) ==
           /\ nextId' = o.k.nid
           /\ attach' = o.k.att
           /\ fdtab' = IF res = "Ok" \/ o.q = <<>> THEN o.k.tab
                       ELSE QueueDrop(o.k.tab, o.q[1])
           /\ held' = IF res = "Ok" THEN held \o o.q ELSE held
           /\ made' = made \cup Ids(o.q)
           /\ oflags' = IF o.q # <<>> /\ nbOk
                        THEN FcntlSetFl(o.k.tab, oflags, o.q[1].fd,
                                        oflags[o.q[1].id] \cup {"O_NONBLOCK"})
                        ELSE oflags
           /\ regs' = IF res = "Ok"
                      THEN regs \cup {[id |-> o.q[1].id, fd |-> o.q[1].fd]}
                      ELSE regs
           /\ ret' = [NoRet EXCEPT !.op = "aopen", !.res = res, !.arg = rt,
                                   !.a = status, !.on = nbOk, !.again = regOk,
                                   !.nid0 = nextId, !.n = Len(held)]
         Opened(o) ==
           Finished(o, IF o.res # "Ok" THEN o.res
                       ELSE IF ~nbOk THEN (IF rt = "tokio" THEN "Unix" ELSE "IO")
                       ELSE IF ~regOk THEN "IO"
                       ELSE "Ok")
     IN  Opened(QueueOpen([tab |-> fdtab, nid |-> nextId, att |-> attach],
                          IfReqNew(<<114, 105, 112>>).name,
                          OpenError(LowestFree(fdtab), status).kind))
  /\ UNCHANGED <<tunLive, queues, name, drained>>
  /\ UNCHANGED muxVars
  /\ UNCHANGED <<fed, got, twin, tasks>>

\* A Queue or an adapter the caller owns goes out of scope: an adapter's
\* source leaves the reactor, and the Queue inside is dropped.
HeldLetGo(j) ==
  /\ j \in 1..Len(held)
  /\ regs' = regs \ {[id |-> held[j].id, fd |-> held[j].fd0]}
  /\ fdtab' = QueueDrop(fdtab, held[j])
  /\ held' = RemoveAt(held, j)
  /\ ret' = [NoRet EXCEPT !.op = "drop", !.pre = <<held[j]>>]
  /\ UNCHANGED <<nextId, tunLive, queues, name, made, drained>>
  /\ UNCHANGED muxVars
  /\ UNCHANGED <<attach, oflags, fed, got, twin, tasks>>

\* Queues and adapters opened one by one, with a failure at any step, and
\* let go.
NextAnyOpen ==
  \/ \E nm \in Names \cup Templates, openOk \in BOOLEAN,
        status \in IoctlStatus :
       QueueOpenCall(nm, openOk, status)
  \/ \E rt \in {"std", "tokio"}, status \in IoctlStatus, nbOk \in BOOLEAN,
        regOk \in BOOLEAN :
       AdapterOpenCall(rt, status, nbOk, regOk)
  \/ \E j \in 1..MaxHeld, intr \in BOOLEAN : HeldClose(j, intr)
  \/ \E j \in 1..MaxHeld : HeldLetGo(j)

SpecAnyOpen == Init /\ [][NextAnyOpen]_vars

\* ------------------------------------------------- the asynchronous devices

\* The lengths of the datagrams the kernel may deliver.
Payloads == {1, 2}

QIdx == 1..Len(queues)

\* A read that leaves the datagram in the queue.
QueueRecvPeeks(rx, count, ioErr) ==
  IF ioErr THEN [res |-> "Other", n |-> 0, rx |-> rx, full |-> FALSE]
  ELSE IF rx = <<>> THEN [res |-> "WouldBlock", n |-> 0, rx |-> rx, full |-> FALSE]
  ELSE [res |-> "Ok", n |-> Min(Head(rx), count), rx |-> rx, full |-> FALSE]

\* Queue::recv on a non-blocking descriptor: one libc::read.  A failed read
\* is WouldBlock when nothing waits, or another OS error (ioErr).
QueueRecv(rx, count, ioErr) ==
  IF ioErr THEN [res |-> "Other", n |-> 0, rx |-> rx, full |-> FALSE]
  ELSE IF rx = <<>> THEN [res |-> "WouldBlock", n |-> 0, rx |-> rx, full |-> FALSE]
  ELSE [res |-> "Ok", n |-> Min(Head(rx), count), rx |-> Tail(rx), full |-> FALSE]

\* Queue::send on a non-blocking descriptor: one libc::write of the whole
\* datagram.
QueueSend(full, count, ioErr) ==
  IF ioErr THEN [res |-> "Other", n |-> 0, rx |-> <<>>, full |-> full]
  ELSE IF full THEN [res |-> "WouldBlock", n |-> 0, rx |-> <<>>, full |-> full]
  ELSE [res |-> "Ok", n |-> count, rx |-> <<>>, full |-> full]

\* self.iter().map(|queue| Box::pin(queue.readable())): one wait per queue.
CollectWaits(qs) == 1..Len(qs)

\* select_all(futures).await: the futures are polled in index order and the
\* first one that is resolved wins; the others are handed back.
SelectAll(ws, resolved) ==
  LET w == CHOOSE i \in resolved : \A j \in resolved : i <= j
  IN  [idx |-> w, rest |-> ws \ {w}]

\* A mistaken error test that lets a failed wait through.
WaitFailedNever(waitOk) == FALSE

\* `if let Err(e) = result { return Err(e) }` (async-std), and
\* `match result { Ok(guard) => guard, Err(e) => return Err(e) }` (tokio).
WaitFailed(waitOk) == ~waitOk

\* A fixed queue instead of the winner.
IoTargetFirst(idx) == 1

\* self.get(idx) on the index select_all returned (async-std); the queue
\* behind the guard of the winning wait (tokio).
IoTarget(idx) == idx

\* A retry after every attempt, whatever it answered.
RetryAlways(res) == TRUE

\* A retry on every failed attempt.
RetryOnAnyError(res) == res # "Ok"

\* No retry at all.
RetryNever(res) == FALSE

\* `Err(e) if e.kind() == io::ErrorKind::WouldBlock => continue` (async-std);
\* guard.try_io answers Err(TryIoError) exactly on WouldBlock (tokio).
Retry(res) == res = "WouldBlock"

\* A result that reports the length of the caller's buffer.
IoReturnCount(r, count) ==
  IF r.res = "Ok" THEN [kind |-> "Ok", n |-> count]
  ELSE [kind |-> "Err", err |-> r.res]

\* `result => return result`: the io::Result<usize> of the raw attempt.
IoReturn(r, count) ==
  IF r.res = "Ok" THEN [kind |-> "Ok", n |-> r.n]
  ELSE [kind |-> "Err", err |-> r.res]

\* The readiness hint of queue t after a raw attempt.  tokio keeps the
\* cached readiness unless try_io saw WouldBlock and cleared it; async-io
\* hands each event out once and reports the descriptor again only while
\* the kernel still has something for it.
HintAfter(t, r) ==
  IF impl = "tokio"
  THEN (IF r.res = "WouldBlock" THEN FALSE ELSE ready[t])
  ELSE (IF op = "recv" THEN r.rx # <<>> ELSE r.res = "Ok")

\* The tally of datagrams handed to the caller, kept for the queues the run
\* keeps a tally for: a read that succeeded took one datagram off queue t.
Delivered(g, t, r) ==
  IF op = "recv" /\ r.res = "Ok" /\ t \in DOMAIN g
  THEN [g EXCEPT ![t] = @ + 1] ELSE g

\* select_all(futures), before it is awaited: it asserts that the
\* collection is not empty and panics otherwise.
SelectAllNew(ws) == ws # {}

\* A call of AsyncStdTun::recv/send or TokioTun::recv/send enters its loop,
\* collects the waits and hands them to select_all; the task ends there
\* ("panicked") when select_all panics.
MuxCall(count) ==
  /\ pc = "idle"
  /\ pc' = IF SelectAllNew(CollectWaits(queues)) THEN "racing" ELSE "panicked"
  /\ buf' = count
  /\ waits' = CollectWaits(queues)
  /\ last' = NoIter
  /\ mret' = NoResult
  /\ UNCHANGED <<impl, op, rxq, txfull, ready>>
  /\ UNCHANGED lifeVars
  /\ UNCHANGED extVars

\* One iteration of the loop, from the moment select_all resolves.  f is
\* the queue whose wait the reactor fails (0: none); ioErr, whether the raw
\* attempt meets an OS error other than WouldBlock.
MuxIterate(f, ioErr) ==
  /\ pc = "racing"
  /\ LET resolved == {i \in waits : ready[i] \/ i = f}
     IN  /\ resolved # {}
         /\ LET sel == SelectAll(waits, resolved)
                waitOk == sel.idx # f
                it == [NoIter EXCEPT !.valid = TRUE, !.before = waits,
                                     !.winner = sel.idx, !.waitOk = waitOk,
                                     !.dropped = sel.rest]
            IN  IF WaitFailed(waitOk)
                THEN /\ pc' = "done"
                     /\ mret' = [kind |-> "Err", err |-> "Reactor"]
                     /\ waits' = {}
                     /\ last' = it
                     /\ UNCHANGED <<rxq, txfull, ready, got>>
                ELSE LET t == IoTarget(sel.idx)
                         r == IF op = "recv"
                              THEN QueueRecv(rxq[t], buf, ioErr)
                              ELSE QueueSend(txfull[t], buf, ioErr)
                         it2 == [it EXCEPT
                                   !.io = <<[idx |-> t, res |-> r.res, n |-> r.n]>>,
                                   !.avail = IF op = "recv" /\ rxq[sel.idx] # <<>>
                                             THEN Head(rxq[sel.idx]) ELSE 0]
                     IN  /\ IF op = "recv"
                            THEN rxq' = [rxq EXCEPT ![t] = r.rx]
                            ELSE UNCHANGED rxq
                         /\ UNCHANGED txfull
                         /\ ready' = [ready EXCEPT ![t] = HintAfter(t, r)]
                         /\ IF Retry(r.res)
                            THEN /\ pc' = "racing"
                                 /\ waits' = CollectWaits(queues)
                                 /\ last' = [it2 EXCEPT !.restarted = TRUE]
                                 /\ UNCHANGED mret
                            ELSE /\ pc' = "done"
                                 /\ waits' = {}
                                 /\ last' = it2
                                 /\ mret' = IoReturn(r, buf)
                         /\ got' = Delivered(got, t, r)
  /\ UNCHANGED <<impl, op, buf>>
  /\ UNCHANGED lifeVars
  /\ UNCHANGED <<attach, oflags, regs, fed, twin, tasks>>

\* The caller takes the result; it may call again.
MuxReturn ==
  /\ pc = "done"
  /\ pc' = "idle"
  /\ last' = NoIter
  /\ UNCHANGED <<impl, op, rxq, txfull, ready, buf, waits, mret>>
  /\ UNCHANGED lifeVars
  /\ UNCHANGED extVars

\* The kernel queues a datagram on queue i and the reactor learns of it.
Arrive(i, len) ==
  /\ op = "recv"
  /\ i \in QIdx
  /\ Len(rxq[i]) < MaxPending
  /\ rxq' = [rxq EXCEPT ![i] = Append(@, len)]
  /\ ready' = [ready EXCEPT ![i] = TRUE]
  /\ UNCHANGED <<impl, op, txfull, pc, buf, waits, last, mret>>
  /\ UNCHANGED lifeVars
  /\ UNCHANGED extVars

\* The reactor reports queue i ready although the kernel has nothing for it.
StaleHint(i) ==
  /\ i \in QIdx
  /\ ~ready[i]
  /\ ready' = [ready EXCEPT ![i] = TRUE]
  /\ UNCHANGED <<impl, op, rxq, txfull, pc, buf, waits, last, mret>>
  /\ UNCHANGED lifeVars
  /\ UNCHANGED extVars

\* The transmit side of queue i fills up; the hint is not withdrawn.
TxFill(i) ==
  /\ op = "send"
  /\ i \in QIdx
  /\ ~txfull[i]
  /\ txfull' = [txfull EXCEPT ![i] = TRUE]
  /\ UNCHANGED <<impl, op, rxq, ready, pc, buf, waits, last, mret>>
  /\ UNCHANGED lifeVars
  /\ UNCHANGED extVars

\* The transmit side of queue i has room again and the reactor learns of it.
TxRoom(i) ==
  /\ op = "send"
  /\ i \in QIdx
  /\ txfull[i]
  /\ txfull' = [txfull EXCEPT ![i] = FALSE]
  /\ ready' = [ready EXCEPT ![i] = TRUE]
  /\ UNCHANGED <<impl, op, rxq, pc, buf, waits, last, mret>>
  /\ UNCHANGED lifeVars
  /\ UNCHANGED extVars

\* AsyncStdTun::new / TokioTun::new built a device of num_queues queues
\* without a failure: each queue was opened, put in non-blocking mode
\* (TokioQueue::open by set_non_blocking(true), Async::new by itself) and
\* registered with the reactor; nothing has arrived yet, and a fresh queue
\* is writable.
MuxDevice ==
  /\ impl \in {"std", "tokio"}
  /\ \E num_queues \in 1..MaxQueues :
       LET r == new_queues([tab |-> [f \in FdNums |-> NoFile], nid |-> 0,
                            att |-> [id \in 1..MaxOpens |-> <<>>]],
                           <<114, 105, 112>>, num_queues, 0, "FS", FALSE)
       IN  /\ fdtab = r.k.tab
           /\ nextId = r.k.nid
           /\ attach = r.k.att
           /\ queues = r.queues
           /\ name = r.name
           /\ made = Ids(r.opened)
           /\ rxq = [i \in 1..num_queues |-> <<>>]
           /\ txfull = [i \in 1..num_queues |-> FALSE]
           /\ ready = [i \in 1..num_queues |-> op = "send"]
           /\ oflags = [id \in 1..MaxOpens |->
                         IF id <= num_queues
                         THEN FlagsOnOpen(TRUE)[id] \cup {"O_NONBLOCK"}
                         ELSE FlagsOnOpen(TRUE)[id]]
           /\ regs = {[id |-> r.queues[i].id, fd |-> r.queues[i].fd] :
                        i \in 1..num_queues}
  /\ tunLive = TRUE
  /\ held = <<>>
  /\ drained = {}
  /\ ret = NoRet
  /\ pc = "idle"
  /\ buf = 0
  /\ waits = {}
  /\ last = NoIter
  /\ mret = NoResult

InitMux ==
  /\ op \in {"recv", "send"}
  /\ MuxDevice
  /\ fed = <<>>
  /\ got = <<>>
  /\ twin = NoTwin
  /\ tasks = NoTasks

NextMux ==
  \/ \E count \in Payloads : MuxCall(count)
  \/ \E f \in 0..MaxQueues, ioErr \in BOOLEAN : MuxIterate(f, ioErr)
  \/ MuxReturn
  \/ \E i \in 1..MaxQueues, len \in Payloads : Arrive(i, len)
  \/ \E i \in 1..MaxQueues : StaleHint(i)
  \/ \E i \in 1..MaxQueues : TxFill(i)
  \/ \E i \in 1..MaxQueues : TxRoom(i)

SpecMux == InitMux /\ [][NextMux]_vars

\* ------------------------------------------ the Tun shared between threads

\* A lookup that answers the last queue for an index past the end.
TunGetClamped(qs, k) ==
  IF qs = <<>> THEN <<>> ELSE <<qs[Min(k + 1, Len(qs))]>>

\* A lookup that answers the first queue for every index.
TunGetFirst(qs, k) == IF qs = <<>> THEN <<>> ELSE <<qs[1]>>

\* Tun::get(index), the index counting from 0: None (the empty sequence)
\* outside the Vec.
TunGet(qs, k) == IF k < Len(qs) THEN <<qs[k + 1]>> ELSE <<>>

\* Error::into_io
IntoIo(e) ==
  IF e.kind \in {"FS", "IO"} THEN e.source
  ELSE IF e.kind = "Unix" THEN [kind |-> "Os", errno |-> e.source]
  ELSE [kind |-> "Other", inner |-> e]

\* `Error::from(queue).into_io()`
InvalidQueue(k) == IntoIo([kind |-> "InvalidQueue", idx |-> k])

\* The open file a descriptor number refers to.
FileOf(tab, fd) == IF IsOpenFd(tab, fd) THEN tab[fd] ELSE NoFile

\* Tun::recv_via(k, datagram) with a buffer of count bytes, as a function
\* of the device and of the kernel (rx: open file -> datagrams waiting).
\* io lists the calls of libc::read.  A read on a descriptor in blocking
\* mode with nothing waiting does not return ("Blocked").
RecvVia(qs, tab, fl, rx, k, count, ioErr) ==
  LET g == TunGet(qs, k)
  IN  IF g = <<>>
      THEN [rx |-> rx, io |-> <<>>,
            val |-> [kind |-> "Err", err |-> InvalidQueue(k)]]
      ELSE LET id == FileOf(tab, g[1].fd)
               call == <<[fd |-> g[1].fd, id |-> id]>>
           IN  IF id = NoFile
               THEN [rx |-> rx, io |-> call,
                     val |-> [kind |-> "Err", err |-> "Other"]]
               ELSE IF ~ioErr /\ rx[id] = <<>> /\ "O_NONBLOCK" \notin fl[id]
               THEN [rx |-> rx, io |-> call, val |-> [kind |-> "Blocked"]]
               ELSE LET r == QueueRecv(rx[id], count, ioErr)
                    IN  [rx |-> [rx EXCEPT ![id] = r.rx], io |-> call,
                         val |-> IoReturn(r, count)]

\* Tun::send_via(k, datagram) with a datagram of count bytes; io lists the
\* calls of libc::write.
SendVia(qs, tab, k, count, ioErr) ==
  LET g == TunGet(qs, k)
  IN  IF g = <<>>
      THEN [io |-> <<>>, val |-> [kind |-> "Err", err |-> InvalidQueue(k)]]
      ELSE LET id == FileOf(tab, g[1].fd)
               r == QueueSend(FALSE, count, ioErr \/ id = NoFile)
           IN  [io |-> <<[fd |-> g[1].fd, id |-> id]>>,
                val |-> IoReturn(r, count)]

\* A thread calls recv_via(k, _) on the shared Tun and the call returns.
TunRecvVia(k, count, ioErr) ==
  /\ tunLive
  /\ LET r == RecvVia(queues, fdtab, oflags, rxq, k, count, ioErr)
     IN  /\ r.val.kind # "Blocked"
         /\ rxq' = r.rx
         /\ ret' = [NoRet EXCEPT !.op = "recv_via", !.k = k, !.val = r.val,
                                 !.io = r.io]
  /\ UNCHANGED <<fdtab, nextId, tunLive, queues, name, held, made, drained>>
  /\ UNCHANGED <<impl, op, txfull, ready, pc, buf, waits, last, mret>>
  /\ UNCHANGED extVars

\* A thread calls send_via(k, _) on the shared Tun.
TunSendVia(k, count, ioErr) ==
  /\ tunLive
  /\ LET r == SendVia(queues, fdtab, k, count, ioErr)
     IN  ret' = [NoRet EXCEPT !.op = "send_via", !.k = k, !.val = r.val,
                              !.io = r.io]
  /\ UNCHANGED <<fdtab, nextId, tunLive, queues, name, held, made, drained>>
  /\ UNCHANGED muxVars
  /\ UNCHANGED extVars

\* A thread calls get(k) on the shared Tun.
TunGetQueue(k) ==
  /\ tunLive
  /\ LET g == TunGet(queues, k)
     IN  ret' = [NoRet EXCEPT
                   !.op = "get", !.k = k,
                   !.val = IF g = <<>> THEN [kind |-> "None"]
                           ELSE [kind |-> "Some", id |-> g[1].id]]
  /\ UNCHANGED <<fdtab, nextId, tunLive, queues, name, held, made, drained>>
  /\ UNCHANGED muxVars
  /\ UNCHANGED extVars

\* tun.get(i - 1).unwrap().set_non_blocking(on).  again tells whether the
\* call before it was the same call and returned Ok; fl0 keeps the flags of
\* the open file before the call.
TunSetNonBlocking(i, on) ==
  /\ tunLive
  /\ i \in 1..Len(queues)
  /\ LET r == QueueSetNonBlocking(fdtab, oflags, queues[i], on)
         id == FileOf(fdtab, queues[i].fd)
     IN  /\ oflags' = r.fl
         /\ ret' = [NoRet EXCEPT
                      !.op = "set_non_blocking", !.k = i - 1, !.on = on,
                      !.res = r.res, !.wrote = r.wrote,
                      !.again = (/\ ret.op = "set_non_blocking"
                                 /\ ret.k = i - 1
                                 /\ ret.on = on
                                 /\ ret.res = "Ok"),
                      !.fl0 = IF id = NoFile THEN {} ELSE oflags[id]]
  /\ UNCHANGED <<fdtab, nextId, tunLive, queues, name, held, made, drained>>
  /\ UNCHANGED muxVars
  /\ UNCHANGED <<attach, regs, fed, got, twin, tasks>>

\* The kernel queues a datagram for the open file id.
Deliver(id, len) ==
  /\ id \in DOMAIN rxq
  /\ IsOpen(fdtab, id)
  /\ Len(rxq[id]) < MaxPending
  /\ rxq' = [rxq EXCEPT ![id] = Append(@, len)]
  /\ UNCHANGED <<impl, op, txfull, ready, pc, buf, waits, last, mret>>
  /\ UNCHANGED lifeVars
  /\ UNCHANGED extVars

\* The Tun of examples/sync.rs: built by Tun::new without a failure and then
\* shared; nothing has arrived yet.
SharedTun ==
  /\ impl = "none"
  /\ op = "none"
  /\ \E num_queues \in 1..MaxQueues, nm \in {<<114, 105, 112>>} :
       LET r == new_queues([tab |-> [f \in FdNums |-> NoFile], nid |-> 0,
                            att |-> [id \in 1..MaxOpens |-> <<>>]],
                           nm, num_queues, 0, "FS", FALSE)
       IN  /\ fdtab = r.k.tab
           /\ nextId = r.k.nid
           /\ attach = r.k.att
           /\ queues = r.queues
           /\ name = r.name
           /\ made = Ids(r.opened)
           /\ rxq = [id \in 1..num_queues |-> <<>>]
  /\ regs = {}
  /\ fed = <<>>
  /\ got = <<>>
  /\ twin = NoTwin
  /\ tasks = NoTasks
  /\ tunLive = TRUE
  /\ held = <<>>
  /\ drained = {}
  /\ ret = NoRet
  /\ txfull = <<>>
  /\ ready = <<>>
  /\ pc = "idle"
  /\ buf = 0
  /\ waits = {}
  /\ last = NoIter
  /\ mret = NoResult

InitVia ==
  /\ SharedTun
  /\ oflags = FlagsOnOpen(TRUE)

NextVia ==
  \/ \E k \in 0..MaxQueues, count \in Payloads, ioErr \in BOOLEAN :
       TunRecvVia(k, count, ioErr)
  \/ \E k \in 0..MaxQueues, count \in Payloads, ioErr \in BOOLEAN :
       TunSendVia(k, count, ioErr)
  \/ \E k \in 0..MaxQueues : TunGetQueue(k)
  \/ \E id \in 1..MaxOpens, len \in Payloads : Deliver(id, len)
  \/ \E intrAt \in 0..MaxQueues : intrAt <= Len(queues) /\ TunClose(intrAt)

SpecVia == InitVia /\ [][NextVia]_vars

\* The same Tun on either platform, its queues switched between blocking
\* and non-blocking mode, read and closed.
InitFlags ==
  /\ SharedTun
  /\ oflags \in FreshFlags

NextFlags ==
  \/ \E i \in 1..MaxQueues, on \in BOOLEAN : TunSetNonBlocking(i, on)
  \/ \E k \in 0..MaxQueues, count \in Payloads, ioErr \in BOOLEAN :
       TunRecvVia(k, count, ioErr)
  \/ \E id \in 1..MaxOpens, len \in Payloads : Deliver(id, len)
  \/ \E i \in 1..MaxQueues, intr \in BOOLEAN : TunQueueClose(i, intr)

SpecFlags == InitFlags /\ [][NextFlags]_vars

\* fcntl(queue.as_raw_fd(), F_SETFL, ..) by the caller on queue i of the
\* Tun, switching O_APPEND on or off and leaving the other flags as F_GETFL
\* reported them.
CallerSetAppend(i, on) ==
  /\ tunLive
  /\ i \in 1..Len(queues)
  /\ IsOpenFd(fdtab, queues[i].fd)
  /\ LET Set(id) ==
           /\ oflags' = FcntlSetFl(fdtab, oflags, queues[i].fd,
                                   IF on THEN oflags[id] \cup {"O_APPEND"}
                                   ELSE oflags[id] \ {"O_APPEND"})
           /\ ret' = [NoRet EXCEPT !.op = "fcntl", !.k = i - 1, !.on = on,
                                   !.fl0 = oflags[id]]
     IN  Set(FileOf(fdtab, queues[i].fd))
  /\ UNCHANGED <<fdtab, nextId, tunLive, queues, name, held, made, drained>>
  /\ UNCHANGED muxVars
  /\ UNCHANGED <<attach, regs, fed, got, twin, tasks>>

\* The queues of the Tun on either platform, their flags changed by the
\* caller and by set_non_blocking in any order.
NextAppend ==
  \/ \E i \in 1..MaxQueues, on \in BOOLEAN : TunSetNonBlocking(i, on)
  \/ \E i \in 1..MaxQueues, on \in BOOLEAN : CallerSetAppend(i, on)

SpecAppend == InitFlags /\ [][NextAppend]_vars

\* ------------------------------------------- Queue::send and Queue::recv

\* What libc::read(fd, _, count) answers: the bytes read, or -1 with errno.
\* Reading takes the first waiting datagram, cut to count bytes.  With
\* nothing waiting the answer is EAGAIN in non-blocking mode; in blocking
\* mode the call does not return (blocked).
LibcRead(tab, fl, rx, fd, count, ioErr) ==
  LET Answer(id) ==
        IF id = NoFile
        THEN [rc |-> -1, errno |-> "EBADF", rx |-> rx, blocked |-> FALSE]
        ELSE IF ioErr
        THEN [rc |-> -1, errno |-> "EIO", rx |-> rx, blocked |-> FALSE]
        ELSE IF rx[id] = <<>>
        THEN [rc |-> -1, errno |-> "EAGAIN", rx |-> rx,
              blocked |-> "O_NONBLOCK" \notin fl[id]]
        ELSE [rc |-> Min(Head(rx[id]), count), errno |-> "none",
              rx |-> [rx EXCEPT ![id] = Tail(@)], blocked |-> FALSE]
  IN  Answer(FileOf(tab, fd))

\* What libc::write(fd, _, count) answers: the bytes the kernel took (taken,
\* at most count), or -1 with errno.  With no room (full) the answer is
\* EAGAIN in non-blocking mode; in blocking mode the call does not return.
LibcWrite(tab, fl, fd, count, full, taken, ioErr) ==
  LET Answer(id) ==
        IF id = NoFile
        THEN [rc |-> -1, errno |-> "EBADF", blocked |-> FALSE]
        ELSE IF ioErr
        THEN [rc |-> -1, errno |-> "EIO", blocked |-> FALSE]
        ELSE IF full
        THEN [rc |-> -1, errno |-> "EAGAIN",
              blocked |-> "O_NONBLOCK" \notin fl[id]]
        ELSE [rc |-> Min(taken, count), errno |-> "none", blocked |-> FALSE]
  IN  Answer(FileOf(tab, fd))

\* io::Error::last_os_error(), by its kind.
LastOsError(errno) == IF errno = "EAGAIN" THEN "WouldBlock" ELSE "Other"

\* A send that goes on writing until the whole datagram is taken.
QueueSendAll(tab, fl, q, count, full, taken, ioErr) ==
  LET Second(w1, w2) ==
        [blocked |-> w1.blocked,
         io |-> IF w1.rc >= 0 /\ w1.rc < count
                THEN <<[fd |-> q.fd, count |-> count, rc |-> w1.rc],
                       [fd |-> q.fd, count |-> count - w1.rc, rc |-> w2.rc]>>
                ELSE <<[fd |-> q.fd, count |-> count, rc |-> w1.rc]>>,
         val |-> IF w1.rc < 0
                 THEN [kind |-> "Err", err |-> LastOsError(w1.errno)]
                 ELSE [kind |-> "Ok", n |-> count]]
      First(w1) ==
        Second(w1, LibcWrite(tab, fl, q.fd, count - w1.rc, FALSE,
                             count - w1.rc, FALSE))
  IN  First(LibcWrite(tab, fl, q.fd, count, full, taken, ioErr))

\* Queue::send on the datagram of count bytes: one libc::write of the whole
\* datagram; io lists the raw calls.
QueueSendSync(tab, fl, q, count, full, taken, ioErr) ==
  LET Written(w) ==
        [blocked |-> w.blocked,
         io |-> <<[fd |-> q.fd, count |-> count, rc |-> w.rc]>>,
         val |-> IF w.rc < 0
                 THEN [kind |-> "Err", err |-> LastOsError(w.errno)]
                 ELSE [kind |-> "Ok", n |-> w.rc]]
  IN  Written(LibcWrite(tab, fl, q.fd, count, full, taken, ioErr))

\* Queue::recv / Queue::recv_int with a buffer of count bytes: one
\* libc::read; io lists the raw calls.
QueueRecvInt(tab, fl, rx, q, count, ioErr) ==
  LET Read(r) ==
        [blocked |-> r.blocked, rx |-> r.rx,
         io |-> <<[fd |-> q.fd, count |-> count, rc |-> r.rc]>>,
         val |-> IF r.rc < 0
                 THEN [kind |-> "Err", err |-> LastOsError(r.errno)]
                 ELSE [kind |-> "Ok", n |-> r.rc]]
  IN  Read(LibcRead(tab, fl, rx, q.fd, count, ioErr))

\* The open file behind queue i of the Tun and its flags, as the kernel
\* has them when a call is made.
QueueState(i) ==
  LET Of(id) == [id |-> id, fl |-> IF id = NoFile THEN {} ELSE oflags[id],
                 avail |-> IF id = NoFile THEN <<>> ELSE rxq[id]]
  IN  Of(FileOf(fdtab, queues[i].fd))

\* tun[i - 1].send(datagram) returns.  full and taken are the kernel's
\* state and answer, ioErr an OS error other than EAGAIN.
QueueSendCall(i, count, full, taken, ioErr) ==
  /\ tunLive
  /\ i \in 1..Len(queues)
  /\ taken \in 0..count
  /\ LET Returned(r) ==
           /\ ~r.blocked
           /\ ret' = [NoRet EXCEPT
                        !.op = "send", !.k = i - 1, !.n = count,
                        !.io = r.io, !.val = r.val,
                        !.fl0 = QueueState(i).fl,
                        !.arg = [id |-> QueueState(i).id, full |-> full,
                                 avail |-> <<>>, ioErr |-> ioErr]]
     IN  Returned(QueueSendSync(fdtab, oflags, queues[i], count, full,
                                taken, ioErr))
  /\ UNCHANGED <<fdtab, nextId, tunLive, queues, name, held, made, drained>>
  /\ UNCHANGED muxVars
  /\ UNCHANGED extVars

\* tun[i - 1].recv(buffer) returns.
QueueRecvCall(i, count, ioErr) ==
  /\ tunLive
  /\ i \in 1..Len(queues)
  /\ LET Returned(r) ==
           /\ ~r.blocked
           /\ rxq' = r.rx
           /\ ret' = [NoRet EXCEPT
                        !.op = "recv", !.k = i - 1, !.n = count,
                        !.io = r.io, !.val = r.val,
                        !.fl0 = QueueState(i).fl,
                        !.arg = [id |-> QueueState(i).id, full |-> FALSE,
                                 avail |-> QueueState(i).avail,
                                 ioErr |-> ioErr]]
     IN  Returned(QueueRecvInt(fdtab, oflags, rxq, queues[i], count, ioErr))
  /\ UNCHANGED <<fdtab, nextId, tunLive, queues, name, held, made, drained>>
  /\ UNCHANGED <<impl, op, txfull, ready, pc, buf, waits, last, mret>>
  /\ UNCHANGED extVars

\* The queues of the Tun on either platform, all left in blocking mode or
\* all put in non-blocking mode before the Tun is shared, written to and
\* read from.
InitIo ==
  /\ SharedTun
  /\ \E large \in BOOLEAN, nb \in BOOLEAN :
       oflags = [id \in 1..MaxOpens |->
                   FlagsOnOpen(large)[id] \cup
                   (IF nb THEN {"O_NONBLOCK"} ELSE {})]

NextIo ==
  \/ \E i \in 1..MaxQueues, count \in Payloads, full \in BOOLEAN,
        taken \in 0..2, ioErr \in BOOLEAN :
       QueueSendCall(i, count, full, taken, ioErr)
  \/ \E i \in 1..MaxQueues, count \in Payloads, ioErr \in BOOLEAN :
       QueueRecvCall(i, count, ioErr)
  \/ \E id \in 1..MaxOpens, len \in Payloads : Deliver(id, len)

SpecIo == InitIo /\ [][NextIo]_vars

\* ------------------------------------------- a queue closed and used again

\* Queue::open(&req) by the caller while the Tun lives, the kernel raising
\* no failure: one more queue of the interface, on the lowest descriptor
\* number that is free.  The new open file starts in blocking mode with
\* nothing to read.
TunQueueOpen ==
  /\ tunLive
  /\ nextId < MaxOpens
  /\ Len(held) < MaxHeld
  /\ \E f \in FdNums : fdtab[f] = NoFile
  /\ LET Opened(o) ==
           /\ fdtab' = o.k.tab
           /\ nextId' = o.k.nid
           /\ attach' = o.k.att
           /\ held' = held \o o.q
           /\ made' = made \cup Ids(o.q)
           /\ rxq' = [id \in 1..o.k.nid |->
                        IF id \in DOMAIN rxq THEN rxq[id] ELSE <<>>]
           /\ oflags' = [oflags EXCEPT ![o.k.nid] = @ \ {"O_NONBLOCK"}]
     IN  Opened(QueueOpen([tab |-> fdtab, nid |-> nextId, att |-> attach],
                          IfReqNew(<<114, 105, 112>>).name, "Ok"))
  /\ ret' = [NoRet EXCEPT !.op = "open", !.res = "Ok", !.nid0 = nextId]
  /\ UNCHANGED <<tunLive, queues, name, drained>>
  /\ UNCHANGED <<impl, op, txfull, ready, pc, buf, waits, last, mret>>
  /\ UNCHANGED <<regs, fed, got, twin, tasks>>

\* The queues of a Tun are closed through get_mut and used afterwards,
\* while the caller opens further queues that take over the descriptor
\* numbers set free.
NextClosed ==
  \/ \E i \in 1..MaxQueues, intr \in BOOLEAN : TunQueueClose(i, intr)
  \/ TunQueueOpen
  \/ \E i \in 1..MaxQueues, full \in BOOLEAN :
       QueueSendCall(i, 1, full, 1, FALSE)
  \/ \E i \in 1..MaxQueues : QueueRecvCall(i, 1, FALSE)
  \/ \E i \in 1..MaxQueues, on \in BOOLEAN : TunSetNonBlocking(i, on)
  \/ \E id \in 1..MaxOpens : Deliver(id, 2)

SpecClosed == InitVia /\ [][NextClosed]_vars

\* --------------------------------- one queue of an asynchronous device

\* A call of AsyncStdQueue::recv/send or TokioQueue::recv/send on queue i of
\* the device.  Async::read_with / write_with start with an attempt;
\* TokioQueue starts with the wait for readiness.
AdapterCall(i, count) ==
  /\ pc = "idle"
  /\ i \in QIdx
  /\ pc' = IF impl = "std" THEN "trying" ELSE "awaiting"
  /\ buf' = count
  /\ waits' = {i}
  /\ last' = NoIter
  /\ mret' = NoResult
  /\ UNCHANGED <<impl, op, rxq, txfull, ready>>
  /\ UNCHANGED lifeVars
  /\ UNCHANGED extVars

\* The wait for readiness resolves: with an error of the reactor (waitErr),
\* which `?` returns, or because the queue is reported ready.
AdapterWake(waitErr) ==
  /\ pc = "awaiting"
  /\ LET i == CHOOSE w \in waits : TRUE
     IN  /\ waitErr \/ ready[i]
         /\ IF WaitFailed(~waitErr)
            THEN /\ pc' = "done"
                 /\ mret' = [kind |-> "Err", err |-> "Reactor"]
                 /\ waits' = {}
                 /\ last' = [NoIter EXCEPT !.valid = TRUE, !.before = waits,
                                            !.winner = i, !.waitOk = FALSE]
            ELSE /\ pc' = "trying"
                 /\ last' = NoIter
                 /\ UNCHANGED <<mret, waits>>
  /\ UNCHANGED <<impl, op, rxq, txfull, ready, buf>>
  /\ UNCHANGED lifeVars
  /\ UNCHANGED extVars

\* The raw attempt: queue.recv(datagram) / queue.send(datagram) inside
\* read_with / write_with / try_io.  On WouldBlock the adapter goes back to
\* waiting; every other result is returned.  A closed queue holds -1 and
\* the attempt fails with EBADF.
AdapterTry(ioErr) ==
  /\ pc = "trying"
  /\ LET i == CHOOSE w \in waits : TRUE
         bad == ~IsOpenFd(fdtab, queues[i].fd)
         r == IF op = "recv"
              THEN QueueRecv(rxq[i], buf, ioErr \/ bad)
              ELSE QueueSend(txfull[i], buf, ioErr \/ bad)
         it == [NoIter EXCEPT
                  !.valid = TRUE, !.before = waits, !.winner = i,
                  !.io = <<[idx |-> i, res |-> r.res, n |-> r.n]>>,
                  !.avail = IF op = "recv" /\ rxq[i] # <<>>
                            THEN Head(rxq[i]) ELSE 0]
     IN  /\ IF op = "recv"
            THEN rxq' = [rxq EXCEPT ![i] = r.rx]
            ELSE UNCHANGED rxq
         /\ ready' = [ready EXCEPT ![i] = HintAfter(i, r)]
         /\ IF Retry(r.res)
            THEN /\ pc' = "awaiting"
                 /\ last' = [it EXCEPT !.restarted = TRUE]
                 /\ UNCHANGED <<mret, waits>>
            ELSE /\ pc' = "done"
                 /\ waits' = {}
                 /\ last' = it
                 /\ mret' = IoReturn(r, buf)
  /\ UNCHANGED <<impl, op, txfull, buf>>
  /\ UNCHANGED lifeVars
  /\ UNCHANGED extVars

\* AsyncStdQueue::close / TokioQueue::close on queue i of the device, through
\* get_mut(i): Queue::close on the wrapped queue.  The source stays with
\* the reactor until the Async / AsyncFd itself is dropped.
AdapterClose(i, intr) ==
  /\ pc = "idle"
  /\ i \in QIdx
  /\ LET c == QueueClose(fdtab, queues[i], intr)
     IN  /\ fdtab' = c.tab
         /\ queues' = [queues EXCEPT ![i] = c.q]
         /\ ret' = [NoRet EXCEPT !.op = "aclose",
                                 !.res = IF c.call.rc < 0 THEN "Unix" ELSE "Ok",
                                 !.calls = <<c.call>>]
  /\ UNCHANGED <<nextId, tunLive, name, held, made, drained>>
  /\ UNCHANGED muxVars
  /\ UNCHANGED extVars

\* The asynchronous device goes out of scope: dropping each Async / AsyncFd
\* takes its source off the reactor, and the queues inside are dropped.
AsyncTunDrop ==
  /\ pc = "idle"
  /\ tunLive
  /\ regs' = regs \ {[id |-> queues[i].id, fd |-> queues[i].fd0] : i \in QIdx}
  /\ fdtab' = VecDrop(fdtab, queues)
  /\ tunLive' = FALSE
  /\ queues' = <<>>
  /\ name' = <<>>
  /\ ret' = [NoRet EXCEPT !.op = "drop", !.pre = queues]
  /\ UNCHANGED <<nextId, held, made, drained>>
  /\ UNCHANGED muxVars
  /\ UNCHANGED <<attach, oflags, fed, got, twin, tasks>>

\* AsyncStdTun::close / TokioTun::close: every queue is drained out of the
\* device and closed; `?` returns on the first failed close.  Each adapter
\* is dropped when its iteration ends or with the Drain, which takes its
\* source off the reactor.  The device stays with the caller, empty.
AsyncTunClose(intrAt) ==
  /\ pc = "idle"
  /\ tunLive
  /\ LET Closed(d, r) ==
           /\ fdtab' = r.tab
           /\ queues' = d.rest
           /\ ret' = [NoRet EXCEPT !.op = "close", !.res = r.res,
                                   !.calls = r.calls, !.pre = queues]
     IN  Closed(VecDrain(queues, 0, Len(queues)),
                CloseLoop(fdtab, queues, 1, intrAt, <<>>))
  /\ regs' = regs \ {[id |-> queues[i].id, fd |-> queues[i].fd0] : i \in QIdx}
  /\ rxq' = <<>>
  /\ txfull' = <<>>
  /\ ready' = <<>>
  /\ UNCHANGED <<impl, op, pc, buf, waits, last, mret>>
  /\ UNCHANGED <<nextId, tunLive, name, held, made, drained>>
  /\ UNCHANGED <<attach, oflags, fed, got, twin, tasks>>

\* AsyncStdTun::drain(a..b) / TokioTun::drain(a..b), the caller letting the
\* drained adapters go: their sources leave the reactor and the queues
\* inside are dropped.
AsyncTunDrain(a, b) ==
  /\ pc = "idle"
  /\ tunLive
  /\ a <= b /\ b <= Len(queues)
  /\ LET Drained(d) ==
           /\ queues' = d.rest
           /\ fdtab' = VecDrop(fdtab, d.out)
           /\ drained' = drained \cup Ids(d.out)
           /\ regs' = regs \ {[id |-> d.out[i].id, fd |-> d.out[i].fd0] :
                                i \in 1..Len(d.out)}
     IN  Drained(VecDrain(queues, a, b))
  /\ rxq' = VecDrain(rxq, a, b).rest
  /\ txfull' = VecDrain(txfull, a, b).rest
  /\ ready' = VecDrain(ready, a, b).rest
  /\ ret' = [NoRet EXCEPT !.op = "drain", !.pre = queues, !.a = a, !.b = b]
  /\ UNCHANGED <<impl, op, pc, buf, waits, last, mret>>
  /\ UNCHANGED <<nextId, tunLive, name, held, made>>
  /\ UNCHANGED <<attach, oflags, fed, got, twin, tasks>>

\* An asynchronous device whose queues are drained or closed between the
\* calls of recv/send.
NextEmpty ==
  \/ \E count \in Payloads : MuxCall(count)
  \/ \E f \in 0..MaxQueues, ioErr \in BOOLEAN : MuxIterate(f, ioErr)
  \/ MuxReturn
  \/ \E i \in 1..MaxQueues, len \in Payloads : Arrive(i, len)
  \/ \E a \in 0..MaxQueues, b \in 0..MaxQueues : AsyncTunDrain(a, b)
  \/ \E intrAt \in 0..MaxQueues : intrAt <= Len(queues) /\ AsyncTunClose(intrAt)

SpecEmpty == InitMux /\ [][NextEmpty]_vars

NextQueue ==
  \/ \E i \in 1..MaxQueues, count \in Payloads : AdapterCall(i, count)
  \/ \E waitErr \in BOOLEAN : AdapterWake(waitErr)
  \/ \E ioErr \in BOOLEAN : AdapterTry(ioErr)
  \/ MuxReturn
  \/ \E i \in 1..MaxQueues, len \in Payloads : Arrive(i, len)
  \/ \E i \in 1..MaxQueues : StaleHint(i)
  \/ \E i \in 1..MaxQueues : TxFill(i)
  \/ \E i \in 1..MaxQueues : TxRoom(i)

SpecQueue == InitMux /\ [][NextQueue]_vars

\* The queues of an asynchronous device are closed one by one, with or
\* without datagrams waiting, and the device is dropped.
NextClose ==
  \/ \E i \in 1..MaxQueues, intr \in BOOLEAN : AdapterClose(i, intr)
  \/ AsyncTunDrop
  \/ \E i \in 1..MaxQueues, len \in Payloads : Arrive(i, len)

SpecClose == InitMux /\ [][NextClose]_vars

\* --------------------------------------- the two devices, side by side

\* The raw attempts one call may go through.
MaxAttempts == 3

\* What the raw attempt on the winning queue answers.
RawResults ==
  {[res |-> "Ok", n |-> 0], [res |-> "Ok", n |-> 1], [res |-> "Ok", n |-> 2],
   [res |-> "WouldBlock", n |-> 0], [res |-> "Other", n |-> 0]}

\* A try_io that takes every failed attempt for WouldBlock.
TryIoOnAnyError(r) == IF r.res # "Ok" THEN <<>> ELSE <<r>>

\* guard.try_io(|queue| ..) of tokio's AsyncFdReadyGuard: the closure's
\* result, or Err(TryIoError) (the empty sequence) when the closure
\* reported WouldBlock.
TryIo(r) == IF r.res = "WouldBlock" THEN <<>> ELSE <<r>>

\* One iteration of the loop of AsyncStdTun::recv/send.  idx is the index
\* select_all answered, counting from 1; waitOk, whether the wait resolved
\* without an error; r, what the raw attempt answers when it is made.
\* tried lists the queue the raw attempt was made on; out holds the value
\* returned, and is empty when the loop goes round again.
StdTunIterate(qs, idx, waitOk, r) ==
  IF ~waitOk
  THEN [tried |-> <<>>, out |-> <<[kind |-> "Err", err |-> "Reactor"]>>]
  ELSE IF TunGet(qs, idx - 1) = <<>>
  THEN [tried |-> <<>>,
        out |-> <<[kind |-> "Err", err |-> InvalidQueue(idx - 1)]>>]
  ELSE IF r.res = "WouldBlock"
  THEN [tried |-> <<TunGet(qs, idx - 1)[1].id>>, out |-> <<>>]
  ELSE [tried |-> <<TunGet(qs, idx - 1)[1].id>>,
        out |-> <<IF r.res = "Ok" THEN [kind |-> "Ok", n |-> r.n]
                  ELSE [kind |-> "Err", err |-> r.res]>>]

\* One iteration of the loop of TokioTun::recv/send: the guard of the
\* winning wait refers to the queue at idx.
TokioTunIterate(qs, idx, waitOk, r) ==
  IF ~waitOk
  THEN [tried |-> <<>>, out |-> <<[kind |-> "Err", err |-> "Reactor"]>>]
  ELSE LET Tried(res) ==
             IF res = <<>>
             THEN [tried |-> <<qs[idx].id>>, out |-> <<>>]
             ELSE [tried |-> <<qs[idx].id>>,
                   out |-> <<IF res[1].res = "Ok"
                             THEN [kind |-> "Ok", n |-> res[1].n]
                             ELSE [kind |-> "Err", err |-> res[1].res]>>]
       IN  Tried(TryIo(r))

\* A call after one iteration: it goes round again or has its result.
AfterIterate(c, it) ==
  IF c.pc # "racing" THEN c
  ELSE [pc |-> IF it.out = <<>> THEN "racing" ELSE "done",
        tried |-> c.tried \o it.tried,
        out |-> IF it.out = <<>> THEN NoResult ELSE it.out[1]]

\* recv (or send) is called on both devices.
TwinCall ==
  /\ twin.std.pc # "racing"
  /\ twin.tokio.pc # "racing"
  /\ twin' = [std |-> [NoCall EXCEPT !.pc = "racing"],
              tokio |-> [NoCall EXCEPT !.pc = "racing"]]
  /\ UNCHANGED lifeVars
  /\ UNCHANGED muxVars
  /\ UNCHANGED <<attach, oflags, regs, fed, got, tasks>>

\* Both calls are given the same readiness signals and the same answer of
\* the raw attempt: resolved are the queues whose waits have resolved, f
\* the one whose wait resolved with an error (0: none), r the answer.
TwinStep(resolved, f, r) ==
  /\ twin.std.pc = "racing" \/ twin.tokio.pc = "racing"
  /\ Len(twin.std.tried) < MaxAttempts
  /\ Len(twin.tokio.tried) < MaxAttempts
  /\ resolved # {}
  /\ resolved \subseteq CollectWaits(queues)
  /\ f \in resolved \cup {0}
  /\ LET Raced(sel) ==
           twin' = [std |-> AfterIterate(twin.std,
                              StdTunIterate(queues, sel.idx, sel.idx # f, r)),
                    tokio |-> AfterIterate(twin.tokio,
                                TokioTunIterate(queues, sel.idx,
                                                sel.idx # f, r))]
     IN  Raced(SelectAll(CollectWaits(queues), resolved))
  /\ UNCHANGED lifeVars
  /\ UNCHANGED muxVars
  /\ UNCHANGED <<attach, oflags, regs, fed, got, tasks>>

NextTwin ==
  \/ TwinCall
  \/ \E resolved \in SUBSET (1..MaxQueues), f \in 0..MaxQueues,
        r \in RawResults :
       TwinStep(resolved, f, r)

SpecTwin == InitMux /\ [][NextTwin]_vars

\* ------------------------------------- a caller that keeps calling recv

\* The kernel queues the one datagram of queue i and the reactor learns of
\* it.
Feed(i, len) ==
  /\ i \in QIdx
  /\ fed[i] = 0
  /\ rxq' = [rxq EXCEPT ![i] = Append(@, len)]
  /\ ready' = [ready EXCEPT ![i] = TRUE]
  /\ fed' = [fed EXCEPT ![i] = 1]
  /\ UNCHANGED <<impl, op, txfull, pc, buf, waits, last, mret>>
  /\ UNCHANGED lifeVars
  /\ UNCHANGED <<attach, oflags, regs, got, twin, tasks>>

\* The device of examples/std.rs: recv is the only call, and the run keeps
\* a tally of what each queue was fed and what recv returned from it.
InitFeed ==
  /\ op = "recv"
  /\ MuxDevice
  /\ fed = [i \in QIdx |-> 0]
  /\ got = [i \in QIdx |-> 0]
  /\ twin = NoTwin
  /\ tasks = NoTasks

NextFeed ==
  \/ \E i \in 1..MaxQueues, len \in Payloads : Feed(i, len)
  \/ \E count \in Payloads : MuxCall(count)
  \/ \E f \in 0..MaxQueues, ioErr \in BOOLEAN : MuxIterate(f, ioErr)
  \/ MuxReturn

\* The caller calls recv again after every return (the loop of
\* examples/std.rs), the executor runs the task when a wait has resolved, and
\* neither the reactor nor the kernel fails every attempt for ever.
FairCaller ==
  /\ WF_vars(\E count \in Payloads : MuxCall(count))
  /\ WF_vars(MuxReturn)
  /\ SF_vars(MuxIterate(0, FALSE))

SpecFeed == InitFeed /\ [][NextFeed]_vars /\ FairCaller

\* The same caller on a device whose queues keep receiving datagrams.
InitBusy ==
  /\ op = "recv"
  /\ MuxDevice
  /\ fed = <<>>
  /\ got = <<>>
  /\ twin = NoTwin
  /\ tasks = NoTasks

NextBusy ==
  \/ \E i \in 1..MaxQueues, len \in Payloads : Arrive(i, len)
  \/ \E count \in Payloads : MuxCall(count)
  \/ \E f \in 0..MaxQueues, ioErr \in BOOLEAN : MuxIterate(f, ioErr)
  \/ MuxReturn

SpecBusy == InitBusy /\ [][NextBusy]_vars /\ FairCaller

\* ----------------------------- a recv on one queue that a datagram reaches

NextWait ==
  \/ \E i \in 1..MaxQueues, count \in Payloads : AdapterCall(i, count)
  \/ \E waitErr \in BOOLEAN : AdapterWake(waitErr)
  \/ \E ioErr \in BOOLEAN : AdapterTry(ioErr)
  \/ MuxReturn
  \/ \E i \in 1..MaxQueues, len \in Payloads : Arrive(i, len)
  \/ \E i \in 1..MaxQueues : StaleHint(i)

\* The executor polls the task once the queue it waits for is reported
\* ready, the raw attempt it then makes comes back, and the kernel
\* eventually has a datagram for every queue.  Neither a failure of the
\* reactor nor a stale hint is ever forced.
FairQueue ==
  /\ WF_vars(AdapterWake(FALSE))
  /\ WF_vars(\E ioErr \in BOOLEAN : AdapterTry(ioErr))
  /\ \A i \in 1..MaxQueues : WF_vars(\E len \in Payloads : Arrive(i, len))

SpecWait == InitBusy /\ [][NextWait]_vars /\ FairQueue

\* ----------------------------------- tasks that share one device for recv

\* The tasks that call recv on the shared device.
MaxTasks == 2

\* A task outside of recv: its position, the length of its buffer, the
\* queue whose wait won its race, the answer of its last raw attempt,
\* whether that answer sent it round the loop again, and what recv
\* returned to it.
NoTask == [pc |-> "idle", buf |-> 0, win |-> 0, res |-> "none",
           restarted |-> FALSE, mret |-> NoResult]

\* Task t calls recv(&self, ..) on the shared AsyncStdTun / TokioTun with a
\* buffer of count bytes and hands its waits to select_all.
RaceCall(t, count) ==
  /\ tasks[t].pc = "idle"
  /\ tasks' = [tasks EXCEPT
                 ![t] = [NoTask EXCEPT
                           !.pc = IF SelectAllNew(CollectWaits(queues))
                                  THEN "racing" ELSE "panicked",
                           !.buf = count]]
  /\ UNCHANGED lifeVars
  /\ UNCHANGED muxVars
  /\ UNCHANGED <<attach, oflags, regs, fed, got, twin>>

\* select_all(futures).await of task t resolves: the first wait that is
\* resolved wins; a wait the reactor failed (f) ends the call with its
\* error.  The raw attempt comes later, and the other tasks may run in
\* between.
RaceResolve(t, f) ==
  /\ tasks[t].pc = "racing"
  /\ LET Won(sel) ==
           tasks' = [tasks EXCEPT
                       ![t] = IF WaitFailed(sel.idx # f)
                              THEN [@ EXCEPT
                                      !.pc = "done", !.win = sel.idx,
                                      !.res = "none",
                                      !.mret = [kind |-> "Err",
                                                err |-> "Reactor"]]
                              ELSE [@ EXCEPT
                                      !.pc = "resolved", !.win = sel.idx,
                                      !.res = "none"]]
         Resolved(rs) == rs # {} /\ Won(SelectAll(CollectWaits(queues), rs))
     IN  Resolved({i \in CollectWaits(queues) : ready[i] \/ i = f})
  /\ UNCHANGED lifeVars
  /\ UNCHANGED muxVars
  /\ UNCHANGED <<attach, oflags, regs, fed, got, twin>>

\* The raw attempt of task t on the queue that won its race:
\* queue.get_ref().recv(datagram), one libc::read on the non-blocking
\* descriptor.  WouldBlock sends the task round the loop again; every other
\* result is returned.
RaceAttempt(t, ioErr) ==
  /\ tasks[t].pc = "resolved"
  /\ LET Tried(q, r) ==
           /\ rxq' = [rxq EXCEPT ![q] = r.rx]
           /\ ready' = [ready EXCEPT ![q] = HintAfter(q, r)]
           /\ got' = Delivered(got, q, r)
           /\ tasks' = [tasks EXCEPT
                          ![t] = IF Retry(r.res)
                                 THEN [@ EXCEPT !.pc = "racing",
                                                !.res = r.res,
                                                !.restarted = TRUE]
                                 ELSE [@ EXCEPT !.pc = "done",
                                                !.res = r.res,
                                                !.mret = IoReturn(r, @.buf)]]
         Target(q) == Tried(q, QueueRecv(rxq[q], tasks[t].buf, ioErr))
     IN  Target(IoTarget(tasks[t].win))
  /\ UNCHANGED <<impl, op, txfull, pc, buf, waits, last, mret>>
  /\ UNCHANGED lifeVars
  /\ UNCHANGED <<attach, oflags, regs, fed, twin>>

\* Task t takes the result of its call; it may call again.
RaceReturn(t) ==
  /\ tasks[t].pc = "done"
  /\ tasks' = [tasks EXCEPT ![t] = NoTask]
  /\ UNCHANGED lifeVars
  /\ UNCHANGED muxVars
  /\ UNCHANGED <<attach, oflags, regs, fed, got, twin>>

\* The device is shared by MaxTasks tasks, none of them inside recv yet;
\* the run keeps the tally of the datagrams fed and returned.
InitRace ==
  /\ op = "recv"
  /\ MuxDevice
  /\ fed = [i \in QIdx |-> 0]
  /\ got = [i \in QIdx |-> 0]
  /\ twin = NoTwin
  /\ tasks = [t \in 1..MaxTasks |-> NoTask]

NextRace ==
  \/ \E i \in 1..MaxQueues, len \in Payloads : Feed(i, len)
  \/ \E t \in 1..MaxTasks : RaceCall(t, 2)
  \/ \E t \in 1..MaxTasks, f \in 0..MaxQueues : RaceResolve(t, f)
  \/ \E t \in 1..MaxTasks, ioErr \in BOOLEAN : RaceAttempt(t, ioErr)
  \/ \E t \in 1..MaxTasks : RaceReturn(t)

SpecRace == InitRace /\ [][NextRace]_vars

\* ---------------------------------------------------- claims on Tun, Queue

AllQueues == queues \o held

\* Some Queue value still refers to the open file id.
Owned(id) == \E k \in 1..Len(AllQueues) : AllQueues[k].id = id

\* C1 (as claimed; violated): when Tun::new returns an open failure, every
\* descriptor opened by the opens that succeeded before it has been closed.
C1_FailedNewLeavesNothingOpen ==
  (ret.op = "new" /\ ret.res \in OpenFailures) =>
    \A id \in ret.opened : ~IsOpen(fdtab, id)

\* C2 (as claimed; violated): a Queue that was returned by a successful open
\* and no longer exists, whether it was closed or went out of scope, has had
\* its descriptor closed.
C2_DestroyedQueueIsClosed ==
  \A id \in made : ~Owned(id) => ~IsOpen(fdtab, id)

\* C3 (as claimed; violated): no two Queue values refer to the same open
\* descriptor, so no descriptor can be closed by two independent owners.
C3_SingleOwner ==
  \A p, r \in 1..Len(AllQueues) :
    (p # r /\ AllQueues[p].id = AllQueues[r].id) =>
      (AllQueues[p].fd = InvalidFd \/ AllQueues[r].fd = InvalidFd)

\* C4: after a successful close() the Queue stores the invalid sentinel, and
\* every later close() on that same Queue value returns an error and closes
\* no descriptor, whoever holds the old number by then.
C4_SecondCloseFails ==
  /\ \A k \in 1..Len(AllQueues) :
       AllQueues[k].closed => AllQueues[k].fd = InvalidFd
  /\ \A k \in 1..Len(ret.calls) :
       /\ ret.calls[k].rc = 0 => ret.calls[k].fdAfter = InvalidFd
       /\ ret.calls[k].wasClosed =>
            (ret.calls[k].rc < 0 /\ ret.calls[k].victim = NoFile)

\* C4 witness: a second close() on a closed Queue has just failed while the
\* number the Queue was opened at belongs to a newer open file.
C4_Witness ==
  /\ ret.op = "qclose"
  /\ ret.calls[1].wasClosed
  /\ ret.calls[1].rc < 0
  /\ IsOpenFd(fdtab, ret.calls[1].fd0)
  /\ fdtab[ret.calls[1].fd0] > ret.calls[1].id

\* C5 (as claimed; violated): Tun::close issues a close on every queue the
\* Tun held, in index order, also after one of them failed, and returns the
\* first error.
C5_CloseAttemptsEveryQueue ==
  ret.op = "close" =>
    /\ Len(ret.calls) = Len(ret.pre)
    /\ \A k \in 1..Len(ret.calls) : ret.calls[k].id = ret.pre[k].id
    /\ ret.res = (IF \E k \in 1..Len(ret.calls) : ret.calls[k].rc < 0
                  THEN "Unix" ELSE "Ok")

\* C6: after drain(a..b) the Tun holds exactly the queues outside the range
\* in their original order, it holds no drained queue afterwards, and no
\* close issued by Tun::close is on a drained queue or closes one.
C6_DrainHandsOver ==
  /\ ret.op = "drain" =>
       LET k == ret.b - ret.a
       IN  /\ Len(queues) = Len(ret.pre) - k
           /\ \A p \in 1..Len(queues) :
                queues[p] = ret.pre[IF p <= ret.a THEN p ELSE p + k]
  /\ Ids(queues) \cap drained = {}
  /\ ret.op = "close" =>
       \A k \in 1..Len(ret.calls) :
         /\ ret.calls[k].id \notin drained
         /\ ret.calls[k].victim \notin drained

\* C6 witness: Tun::close has closed a queue while a queue drained from the
\* same Tun is still open in the caller's hands.
C6_Witness ==
  /\ ret.op = "close"
  /\ Len(ret.calls) > 0
  /\ ret.calls[1].rc = 0
  /\ \E j \in 1..Len(held) :
       /\ held[j].id \in drained
       /\ held[j].id > ret.calls[1].id
       /\ IsOpen(fdtab, held[j].id)

\* C15: Tun::new with num_queues = 0 returns InvalidNumQueues whatever the
\* name, and with an empty or non-ASCII name it returns InvalidName; either
\* way Queue::open was not called and the kernel has created no open file.
C15_ValidationBeforeKernel ==
  ret.op = "new" =>
    /\ ret.n < 1 => ret.res = "InvalidNumQueues"
    /\ (ret.n >= 1 /\ (ret.arg = <<>> \/ ~IsAscii(ret.arg))) =>
         ret.res = "InvalidName"
    /\ ret.res \in {"InvalidNumQueues", "InvalidName"} =>
         /\ ret.kcalls = 0
         /\ ret.opened = {}
         /\ nextId = ret.nid0

\* C15 witness: a non-ASCII name was refused for a positive queue count.
C15_Witness ==
  /\ ret.op = "new"
  /\ ret.n >= 1
  /\ ~IsAscii(ret.arg)
  /\ ret.res = "InvalidName"

\* C16: when Tun::new(name, k) returns Ok it has called Queue::open k times,
\* the kernel has created k open files, and the Tun holds k queues, the
\* queue at index i being the one opened by call number i + 1.
C16_NewOpensExactlyK ==
  (ret.op = "new" /\ ret.res = "Ok") =>
    /\ ret.n >= 1
    /\ ret.kcalls = ret.n
    /\ nextId = ret.nid0 + ret.n
    /\ Len(queues) = ret.n
    /\ \A i \in 1..Len(queues) :
         /\ queues[i].id = ret.nid0 + i
         /\ IsOpenFd(fdtab, queues[i].fd)
         /\ fdtab[queues[i].fd] = queues[i].id

\* C16 witness: a Tun of two queues was just built.
C16_Witness ==
  /\ ret.op = "new"
  /\ ret.res = "Ok"
  /\ ret.n = 2
  /\ Len(queues) = 2

C7_OnlyWinnerTried ==
  last.valid =>
    /\ Len(last.io) <= 1
    /\ \A k \in 1..Len(last.io) : last.io[k].idx = last.winner
    /\ (last.io # <<>> /\ last.io[1].res = "WouldBlock") =>
         /\ pc = "racing"
         /\ last.dropped = last.before \ {last.winner}
         /\ waits = 1..Len(queues)

\* C7 witness: the attempt on the winner reported WouldBlock while another
\* queue showed ready, and the race was started again instead of trying it.
C7_Witness ==
  /\ last.valid
  /\ last.io # <<>>
  /\ last.io[1].res = "WouldBlock"
  /\ pc = "racing"
  /\ \E i \in QIdx : i # last.winner /\ ready[i]

\* C8: recv/send never return WouldBlock; the loop goes round again exactly
\* when the raw attempt reported WouldBlock, and any other error of the raw
\* attempt is what the call returns.
C8_OnlyWouldBlockRetried ==
  /\ pc = "done" => mret # [kind |-> "Err", err |-> "WouldBlock"]
  /\ (last.valid /\ last.io # <<>>) =>
       /\ last.restarted <=> last.io[1].res = "WouldBlock"
       /\ last.restarted => pc = "racing"
       /\ last.io[1].res = "Other" =>
            (pc = "done" /\ mret = [kind |-> "Err", err |-> "Other"])

\* C8 witness: a raw attempt failed with an error other than WouldBlock and
\* the call returned it.
C8_Witness ==
  /\ last.valid
  /\ last.io # <<>>
  /\ last.io[1].res = "Other"
  /\ pc = "done"

\* C9 (as claimed; violated): a successful recv/send returns the byte count
\* together with the index of the winning queue.
C9_ReturnsCountAndIndex ==
  (pc = "done" /\ mret.kind = "Ok") =>
    ("idx" \in DOMAIN mret /\ mret.idx = last.winner)

\* C9 (amended): a successful recv/send returns the byte count alone, and it
\* is the count of the one raw I/O performed on the winning queue: for recv
\* the length read of the datagram at the head of that queue, for send the
\* length of the datagram.
C9_ReturnsCountOfWinner ==
  (pc = "done" /\ mret.kind = "Ok") =>
    /\ DOMAIN mret = {"kind", "n"}
    /\ last.io = <<[idx |-> last.winner, res |-> "Ok", n |-> mret.n]>>
    /\ mret.n = (IF op = "recv" THEN Min(last.avail, buf) ELSE buf)

\* C9 witness: recv succeeded on a queue other than the first and read a
\* datagram shorter than the buffer.
C9_Witness ==
  /\ pc = "done"
  /\ op = "recv"
  /\ mret.kind = "Ok"
  /\ last.winner > 1
  /\ mret.n < buf

\* C10: when the wait that wins the race resolves with an error, the call
\* returns that error; no raw I/O is attempted and the race is not started
\* again.
C10_WaitErrorReturned ==
  (last.valid /\ ~last.waitOk) =>
    /\ last.io = <<>>
    /\ ~last.restarted
    /\ pc = "done"
    /\ waits = {}
    /\ mret = [kind |-> "Err", err |-> "Reactor"]

\* C10 witness: the winning wait failed and the call returned its error
\* while another queue was ready with a datagram waiting.
C10_Witness ==
  /\ last.valid
  /\ ~last.waitOk
  /\ pc = "done"
  /\ \E i \in QIdx : i # last.winner /\ ready[i] /\ rxq[i] # <<>>

\* C11: on a device whose queues are each fed one datagram, the datagrams
\* recv has returned from a queue and the one still waiting on it always
\* add up to what the queue was fed (none returned twice, none lost), and
\* once every queue was fed, repeated calls of recv return all of them.
C11_EachDatagramOnce ==
  /\ [](\A i \in QIdx : got[i] + Len(rxq[i]) = fed[i])
  /\ ((\A i \in QIdx : fed[i] = 1) ~> (\A i \in QIdx : got[i] = 1))

\* C11 witness: two queues were fed and recv has returned the datagram of
\* each, the one of the second queue by the call that just returned.
C11_Witness ==
  /\ Len(queues) = 2
  /\ \A i \in QIdx : fed[i] = 1 /\ got[i] = 1
  /\ pc = "done"
  /\ mret.kind = "Ok"
  /\ last.winner = 2

\* C12 (as claimed; violated): whenever a queue has a datagram waiting,
\* some later call of recv returns a datagram of that queue, also while
\* datagrams keep arriving on the queues before it.
C12_NoQueueStarved ==
  \A j \in 1..MaxQueues :
    (j \in QIdx /\ rxq[j] # <<>>) ~>
      (pc = "done" /\ mret.kind = "Ok" /\ last.winner = j)

\* ------------------------------------------- claims on the shared Tun

\* C17: for every index at or past the number of queues the Tun holds,
\* get answers None and recv_via / send_via answer the io::Error that wraps
\* InvalidQueue(index), and neither issues a read or a write; the last call
\* made shows the same.
C17_OutOfRangeRefused ==
  /\ \A k \in Len(queues)..(MaxQueues + 1), count \in Payloads :
       /\ TunGet(queues, k) = <<>>
       /\ LET r == RecvVia(queues, fdtab, oflags, rxq, k, count, FALSE)
              w == SendVia(queues, fdtab, k, count, FALSE)
          IN  /\ r.io = <<>> /\ w.io = <<>>
              /\ r.rx = rxq
              /\ r.val = [kind |-> "Err",
                          err |-> [kind |-> "Other",
                                   inner |-> [kind |-> "InvalidQueue",
                                              idx |-> k]]]
              /\ w.val = r.val
  /\ (ret.op \in {"get", "recv_via", "send_via"} /\ ret.k >= Len(queues)) =>
       /\ ret.io = <<>>
       /\ ret.op = "get" => ret.val = [kind |-> "None"]
       /\ ret.op # "get" =>
            ret.val = [kind |-> "Err",
                       err |-> [kind |-> "Other",
                                inner |-> [kind |-> "InvalidQueue",
                                           idx |-> ret.k]]]

\* C17 witness: recv_via was refused for the first index past the end while
\* a datagram was waiting on the last queue.
C17_Witness ==
  /\ ret.op = "recv_via"
  /\ Len(queues) >= 1
  /\ ret.k = Len(queues)
  /\ ret.val.kind = "Err"
  /\ LET id == FileOf(fdtab, queues[Len(queues)].fd)
     IN  id # NoFile /\ rxq[id] # <<>>

\* C19: the queues of the shared Tun refer to pairwise distinct open
\* descriptors; a recv_via / send_via touches the descriptor of the queue
\* at its index only; and for two distinct indices the result on each queue
\* and the state of the kernel are the same in either order of the two
\* calls.
C19_DistinctDescriptors ==
  /\ \A i, j \in 1..Len(queues) :
       (i # j /\ FileOf(fdtab, queues[i].fd) # NoFile) =>
         /\ queues[i].fd # queues[j].fd
         /\ FileOf(fdtab, queues[i].fd) # FileOf(fdtab, queues[j].fd)
  /\ (ret.op \in {"recv_via", "send_via"} /\ ret.k < Len(queues)) =>
       /\ Len(ret.io) = 1
       /\ ret.io[1].fd = queues[ret.k + 1].fd
  /\ \A i, j \in 0..(Len(queues) - 1), ci, cj \in Payloads :
       i # j =>
         LET a == RecvVia(queues, fdtab, oflags, rxq, i, ci, FALSE)
             b == RecvVia(queues, fdtab, oflags, rxq, j, cj, FALSE)
             ab == RecvVia(queues, fdtab, oflags, a.rx, j, cj, FALSE)
             ba == RecvVia(queues, fdtab, oflags, b.rx, i, ci, FALSE)
         IN  /\ ab.val = b.val
             /\ ba.val = a.val
             /\ ab.rx = ba.rx

\* C19 witness: the thread of the second queue has read a datagram while
\* one is still waiting on the first queue.
C19_Witness ==
  /\ Len(queues) = 2
  /\ ret.op = "recv_via"
  /\ ret.k = 1
  /\ ret.val.kind = "Ok"
  /\ FileOf(fdtab, queues[1].fd) # NoFile
  /\ rxq[FileOf(fdtab, queues[1].fd)] # <<>>

\* C20 (as claimed; violated): when set_non_blocking(on) follows the same
\* call on the same queue, it returns Ok, issues no F_SETFL and leaves the
\* flags of the descriptor as the first call left them.
C20_SecondCallIsNoOp ==
  (ret.op = "set_non_blocking" /\ ret.again) =>
    /\ ret.res = "Ok"
    /\ ~ret.wrote
    /\ LET id == FileOf(fdtab, queues[ret.k + 1].fd)
       IN  id # NoFile /\ oflags[id] = ret.fl0

\* --------------------------------- claims on AsyncStdQueue and TokioQueue

\* C13: recv/send of a queue of an asynchronous device never return
\* WouldBlock: when the raw attempt reports WouldBlock the call goes back to
\* waiting for readiness, and what it returns is a byte count or an error
\* other than WouldBlock.
C13_AdapterNeverWouldBlock ==
  /\ pc = "done" =>
       \/ mret.kind = "Ok" /\ mret.n \in 0..buf
       \/ mret.kind = "Err" /\ mret.err \in {"Other", "Reactor"}
  /\ (last.valid /\ last.io # <<>> /\ last.io[1].res = "WouldBlock") =>
       (pc = "awaiting" /\ last.restarted /\ waits = {last.winner})

\* C13 witness: the attempt made after the queue was reported ready found
\* nothing to read, and the call waits again.
C13_Witness ==
  /\ op = "recv"
  /\ impl = "tokio"
  /\ pc = "awaiting"
  /\ last.valid
  /\ last.io # <<>>
  /\ last.io[1].res = "WouldBlock"
  /\ ~ready[last.winner]

\* C14 (as claimed; violated): when close() of a queue of an asynchronous
\* device has returned Ok, the reactor holds no source for the descriptor
\* it closed.
C14_CloseDeregisters ==
  (ret.op = "aclose" /\ ret.res = "Ok") =>
    \A k \in 1..Len(ret.calls) :
      \A s \in regs : s.fd # ret.calls[k].fdArg

\* C21: a call of Queue::send or Queue::recv issues exactly one raw write
\* or read, of the whole buffer; a byte count it returns is the one the
\* kernel answered, between 0 and the length of the buffer; and when the
\* descriptor is in non-blocking mode and the kernel has no room (send) or
\* no datagram (recv), the call returns an error of the WouldBlock kind.
C21_OneRawCallPerCall ==
  ret.op \in {"send", "recv"} =>
    /\ Len(ret.io) = 1
    /\ ret.io[1].count = ret.n
    /\ ret.val.kind = "Ok" =>
         (ret.val.n \in 0..ret.n /\ ret.val.n = ret.io[1].rc)
    /\ ( /\ ret.arg.id # NoFile
         /\ ~ret.arg.ioErr
         /\ "O_NONBLOCK" \in ret.fl0
         /\ IF ret.op = "send" THEN ret.arg.full ELSE ret.arg.avail = <<>> )
       => ret.val = [kind |-> "Err", err |-> "WouldBlock"]

\* C21 witness: a send of two bytes of which the kernel took one returned
\* Ok(1).
C21_Witness ==
  /\ ret.op = "send"
  /\ ret.n = 2
  /\ ret.val = [kind |-> "Ok", n |-> 1]
  /\ Len(ret.io) = 1

\* C22: Queue::open opens the control path before it configures the queue
\* and classifies a failure by the step that failed: Error::FS when the
\* control path cannot be opened (and then nothing was opened or
\* configured), Error::UnixIoctl carrying the status when the ioctl answers
\* a status >= 1, Error::Unix when it answers -1; a Queue is returned only
\* when both steps succeeded, and it holds the descriptor of the file that
\* was opened and attached.
C22_OpenClassifiesFailure ==
  ret.op = "open" =>
    /\ ret.val.kind = "FS" <=> ~ret.on
    /\ ret.val.kind = "UnixIoctl" <=> (ret.on /\ ret.a >= 1)
    /\ ret.val.kind = "UnixIoctl" => ret.val.code = ret.a
    /\ ret.val.kind = "Unix" <=> (ret.on /\ ret.a < 0)
    /\ ret.val.kind = "Ok" <=> (ret.on /\ ret.a = 0)
    /\ nextId = ret.nid0 + (IF ret.on THEN 1 ELSE 0)
    /\ IF ret.val.kind = "Ok"
       THEN /\ Len(held) = ret.n + 1
            /\ held[Len(held)].id = nextId
            /\ FileOf(fdtab, held[Len(held)].fd) = nextId
            /\ attach[nextId] # <<>>
       ELSE /\ Len(held) = ret.n
            /\ ret.on => attach[nextId] = <<>>

\* C22 witness: the control path was opened and the ioctl answered the
\* status 1; Queue::open returned Error::UnixIoctl(1) and no Queue.
C22_Witness ==
  /\ ret.op = "open"
  /\ ret.on
  /\ ret.a = 1
  /\ ret.val = [kind |-> "UnixIoctl", code |-> 1]
  /\ Len(held) = ret.n

\* C23 (as claimed; violated): a call of recv or send on an asynchronous
\* device that has no queue left ends by returning an error to the caller.
C23_EmptyDeviceReturnsError ==
  (tunLive /\ queues = <<>> /\ pc # "idle") =>
    (pc = "done" /\ mret.kind = "Err")

\* C24 (as claimed; violated): a Tun the caller holds has at least one
\* queue, in every state from its construction on.
C24_AtLeastOneQueue == tunLive => Len(queues) >= 1

\* C25 (as claimed; violated): for every name of 1 to IF_NAME_SIZE - 1
\* ASCII bytes, IfReq::new succeeds and name() of the request is the name.
C25_NameRoundTrip ==
  ( /\ ret.op = "build"
    /\ Len(ret.arg) \in 1..(IF_NAME_SIZE - 1)
    /\ \A i \in 1..Len(ret.arg) : ret.arg[i] < 128 )
  => (ret.val.ok /\ ret.io = ret.arg)

\* C26 (as claimed; violated): for every ASCII name of more than
\* IF_NAME_SIZE - 1 bytes, the request holds the first IF_NAME_SIZE - 1
\* bytes of the name, the last byte of its buffer is NUL, and the buffer
\* has its IF_NAME_SIZE bytes and no other.
C26_LongNameKeepsTerminator ==
  ( /\ ret.op = "build"
    /\ Len(ret.arg) > IF_NAME_SIZE - 1
    /\ \A i \in 1..Len(ret.arg) : ret.arg[i] < 128 )
  => /\ ret.val.ok
     /\ DOMAIN ret.val.name = 0..(IF_NAME_SIZE - 1)
     /\ \A idx \in 0..(IF_NAME_SIZE - 2) : ret.val.name[idx] = ret.arg[idx + 1]
     /\ ret.val.name[IF_NAME_SIZE - 1] = 0

\* C27 (as claimed; violated): for an ASCII name of more than IF_NAME_SIZE
\* bytes, IfReq::new succeeds and name() is the first IF_NAME_SIZE bytes of
\* the name.
C27_LongNameFirstSixteen ==
  ( /\ ret.op = "build"
    /\ Len(ret.arg) > IF_NAME_SIZE
    /\ \A i \in 1..Len(ret.arg) : ret.arg[i] < 128 )
  => (ret.val.ok /\ ret.io = SubSeq(ret.arg, 1, IF_NAME_SIZE))

C29_FlagsFixed ==
  (ret.op = "build" /\ ret.val.ok) =>
    /\ ret.val.flags = IFF_TUN + IFF_NO_PI + IFF_MULTI_QUEUE
    /\ \A b \in {IFF_TUN, IFF_NO_PI, IFF_MULTI_QUEUE} :
         (ret.val.flags \div b) % 2 = 1

\* C29 witness: a request built from a name longer than its buffer.
C29_Witness ==
  /\ ret.op = "build"
  /\ ret.val.ok
  /\ Len(ret.arg) = MaxNameLen
  /\ ret.val.flags = 4353

\* C30: given the same readiness signals and the same answers of the raw
\* attempts, a call on AsyncStdTun and a call on TokioTun are at the same
\* point, have made their raw attempts on the same queues in the same
\* order, and return the same result.
C30_SameContract ==
  /\ twin.std.pc = twin.tokio.pc
  /\ twin.std.tried = twin.tokio.tried
  /\ twin.std.out = twin.tokio.out

\* C30 witness: both calls met WouldBlock on the second queue, went round
\* again and returned the error of the attempt on the first queue.
C30_Witness ==
  /\ Len(queues) = 2
  /\ twin.std.pc = "done"
  /\ twin.tokio.pc = "done"
  /\ twin.std.tried = <<queues[2].id, queues[1].id>>
  /\ twin.tokio.tried = <<queues[2].id, queues[1].id>>
  /\ twin.std.out = [kind |-> "Err", err |-> "Other"]
  /\ twin.tokio.out = [kind |-> "Err", err |-> "Other"]


\* C31: under a fair executor, and with a datagram eventually waiting on
\* its queue, a recv of a queue of an asynchronous device that is waiting
\* for readiness or making its attempt eventually returns; stale readiness
\* hints only send it back to waiting.
C31_RecvEventuallyReturns ==
  (pc \in {"awaiting", "trying"}) ~> (pc = "done")

\* C31 witness: a stale hint sent the call back to waiting, and the
\* datagram it will return has arrived since.
C31_Witness ==
  /\ op = "recv"
  /\ pc = "awaiting"
  /\ last.valid
  /\ last.restarted
  /\ last.io # <<>>
  /\ last.io[1].res = "WouldBlock"
  /\ rxq[last.winner] # <<>>
  /\ ready[last.winner]

\* C32: once close() of a Queue has returned Ok the Queue holds the
\* sentinel for good, and every later send, recv or set_non_blocking on it
\* returns an error: its raw call names no open descriptor, nothing is
\* taken from any receive queue and no open file's flags change.
C32_ClosedQueueRefusesIo ==
  [][/\ \A i \in 1..Len(queues) :
          (queues[i].closed /\ i <= Len(queues')) =>
            (queues'[i].closed /\ queues'[i].fd = InvalidFd)
     /\ (/\ ret' # ret
         /\ ret'.op \in {"send", "recv"}
         /\ queues[ret'.k + 1].closed) =>
          /\ ret'.val.kind = "Err"
          /\ \A c \in 1..Len(ret'.io) : ~IsOpenFd(fdtab, ret'.io[c].fd)
          /\ rxq' = rxq
          /\ oflags' = oflags
     /\ (/\ ret' # ret
         /\ ret'.op = "set_non_blocking"
         /\ queues[ret'.k + 1].closed) =>
          /\ ret'.res # "Ok"
          /\ ~ret'.wrote
          /\ rxq' = rxq
          /\ oflags' = oflags]_vars

\* C32 witness: recv on a closed queue returned an error although the
\* descriptor number the queue once held belongs to a queue opened since,
\* with a datagram waiting on it.
C32_Witness ==
  /\ ret.op = "recv"
  /\ queues[ret.k + 1].closed
  /\ ret.val.kind = "Err"
  /\ held # <<>>
  /\ held[1].fd = queues[ret.k + 1].fd0
  /\ IsOpenFd(fdtab, held[1].fd)
  /\ rxq[held[1].id] # <<>>

\* C33: a close() of a Queue that fails leaves the descriptor number the
\* Queue stores as it was: a Queue no close() has succeeded on still holds
\* the number it was opened at, and a later close() passes that same number
\* to libc::close again.
C33_FailedCloseKeepsFd ==
  /\ \A k \in 1..Len(AllQueues) :
       ~AllQueues[k].closed => AllQueues[k].fd = AllQueues[k].fd0
  /\ \A k \in 1..Len(ret.calls) :
       /\ ret.calls[k].rc < 0 => ret.calls[k].fdAfter = ret.calls[k].fdArg
       /\ ~ret.calls[k].wasClosed => ret.calls[k].fdArg = ret.calls[k].fd0

\* C33 witness: libc::close reported a failure on the descriptor of a Queue
\* no close() had succeeded on, and the Queue still stores the number it
\* was opened at, which the next close() will pass again.
C33_Witness ==
  /\ ret.op = "qclose"
  /\ ~ret.calls[1].wasClosed
  /\ ret.calls[1].rc < 0
  /\ ret.calls[1].victim # NoFile
  /\ ret.calls[1].fdArg # InvalidFd
  /\ ret.calls[1].fdAfter = ret.calls[1].fdArg
  /\ \E k \in 1..Len(AllQueues) :
       /\ AllQueues[k].id = ret.calls[1].id
       /\ AllQueues[k].fd = ret.calls[1].fdArg
       /\ ~AllQueues[k].closed

\* C34 (as claimed; violated): a set_non_blocking(on) that returns Ok
\* leaves every status flag of the descriptor other than O_NONBLOCK as it
\* was before the call.
C34_OnlyNonBlockingBit ==
  (ret.op = "set_non_blocking" /\ ret.res = "Ok") =>
    LET id == FileOf(fdtab, queues[ret.k + 1].fd)
    IN  oflags[id] \ {"O_NONBLOCK"} = ret.fl0 \ {"O_NONBLOCK"}

\* C35 (as claimed; violated): when the open of a Queue or of an adapter
\* fails after the control path was opened, the open file of that attempt
\* is no longer bound to any descriptor when the error is returned.
C35_FailedOpenClosesFd ==
  (ret.op \in {"open", "aopen"} /\ ret.res \notin {"Ok", "FS"}) =>
    \A id \in (ret.nid0 + 1)..nextId : ~IsOpen(fdtab, id)

\* C36 (as claimed; violated): every queue inside a Tun the caller holds is
\* open, in every state the public operations can reach, and Tun::close
\* never passes the sentinel of a closed queue to libc::close.
C36_DeviceQueuesOpen ==
  /\ tunLive =>
       \A i \in 1..Len(queues) :
         ~queues[i].closed /\ queues[i].fd # InvalidFd
  /\ ret.op = "close" =>
       \A k \in 1..Len(ret.calls) :
         ~ret.calls[k].wasClosed /\ ret.calls[k].fdArg # InvalidFd

\* C37: when Tun::close has returned, with Ok or with an error, the Tun
\* holds no queue; get, recv_via and send_via called on it afterwards are
\* refused as out of range without a read or a write, and a close() of the
\* emptied Tun issues no libc::close and returns Ok.
C37_ClosedDeviceIsEmpty ==
  /\ ret.op = "close" =>
       /\ queues = <<>>
       /\ ret.pre = <<>> => (ret.calls = <<>> /\ ret.res = "Ok")
  /\ (tunLive /\ queues = <<>> /\ ret.op \in {"get", "recv_via", "send_via"}) =>
       /\ ret.io = <<>>
       /\ ret.op = "get" => ret.val = [kind |-> "None"]
       /\ ret.op # "get" =>
            ret.val = [kind |-> "Err",
                       err |-> [kind |-> "Other",
                                inner |-> [kind |-> "InvalidQueue",
                                           idx |-> ret.k]]]

\* C37 witness: the close of the first of two queues failed and Tun::close
\* returned the error after that one call; the Tun is empty all the same.
C37_Witness ==
  /\ tunLive
  /\ ret.op = "close"
  /\ ret.res = "Unix"
  /\ Len(ret.pre) = 2
  /\ Len(ret.calls) = 1
  /\ queues = <<>>

\* C38: when several tasks are inside recv of one shared asynchronous
\* device, every datagram the kernel queued has been returned by at most
\* one call (it is still waiting, or one call returned it); a task whose
\* raw attempt answered WouldBlock is back in the race; and no call returns
\* WouldBlock or a length the datagram it took does not have.
C38_OneTaskPerDatagram ==
  /\ \A i \in DOMAIN got : got[i] + Len(rxq[i]) = fed[i]
  /\ \A t \in DOMAIN tasks :
       /\ tasks[t].res = "WouldBlock" =>
            (tasks[t].pc = "racing" /\ tasks[t].restarted)
       /\ tasks[t].pc = "done" =>
            \/ /\ tasks[t].mret.kind = "Ok"
               /\ tasks[t].res = "Ok"
               /\ tasks[t].mret.n \in 1..tasks[t].buf
               /\ got[tasks[t].win] = 1
            \/ /\ tasks[t].mret.kind = "Err"
               /\ tasks[t].mret.err \in {"Other", "Reactor"}
  /\ \A t, u \in DOMAIN tasks :
       ( /\ t # u
         /\ tasks[t].pc = "done" /\ tasks[t].mret.kind = "Ok"
         /\ tasks[u].pc = "done" /\ tasks[u].mret.kind = "Ok" )
       => tasks[t].win # tasks[u].win

\* C38 witness: the waits of two tasks resolved on the same queue; one task
\* took the datagram and the other, whose attempt came second, was answered
\* WouldBlock and is racing again.
C38_Witness ==
  /\ tasks[1].pc = "done"
  /\ tasks[1].mret.kind = "Ok"
  /\ tasks[2].pc = "racing"
  /\ tasks[2].restarted
  /\ tasks[2].res = "WouldBlock"
  /\ tasks[2].win = tasks[1].win
  /\ got[tasks[1].win] = 1
  /\ rxq[tasks[1].win] = <<>>
====
